---- MODULE Spec2Model ----
(***************************************************************************)
(* Model of the static-analysis core of cargo-syntax:                      *)
(*   src/src/tokens.rs        line classifier, project scanner, grader,    *)
(*                            ratio / pct                                  *)
(*   src/src/commands/ci.rs   grade_rank                                   *)
(*   src/src/commands/deep.rs duplicate-block detector                     *)
(*                                                                         *)
(* Text is a sequence of one-character strings.  A path is a sequence of   *)
(* components, a component a sequence of name pieces ("a", ".", "rs").     *)
(* An f64 ratio is the exact fraction <<numerator, denominator>>: every    *)
(* comparison the code makes is against 0, 5, 7, 9 or 12, which f64 holds  *)
(* exactly, and division is correctly rounded, hence monotone.             *)
(***************************************************************************)
EXTENDS Integers, Sequences, FiniteSets, TLC

VARIABLES
    \* count_line_types (one loop iteration per step)
    content, lineNo, code, comments, blanks, in_block_comment, clPc,
    \* scan_project
    walk, pos, files, total_lines, total_tokens, code_lines, comment_lines,
    blank_lines, warnings, scanResult,
    \* ratio / pct / efficiency_grade / grade_rank
    gIn, gRatio, gPct, gGrade, gPc,
    \* deep::run
    stats, normalized, map, clusters, kept, near_dupes, total_savings, dPc,
    \* estimate_savings
    eCluster, eOut, ePc,
    \* extract_functions
    xContent, xI, xFns, xPc,
    \* string_similarity as a call
    sA, sB, sOut, sPc,
    \* ci::run
    ciIn, ciFailures, ciPrinted, ciExit, ciPc,
    \* batch::run
    bArgs, bFiles, disk, bI, rewritten, skipped, failed, total_saved, bLog,
    bPc

clVars   == <<content, lineNo, code, comments, blanks, in_block_comment, clPc>>
scanVars == <<walk, pos, files, total_lines, total_tokens, code_lines,
              comment_lines, blank_lines, warnings, scanResult>>
gradeVars == <<gIn, gRatio, gPct, gGrade, gPc>>
runVars == <<stats, normalized, map, clusters, kept, near_dupes,
             total_savings, dPc>>
savingsVars == <<eCluster, eOut, ePc>>
extractVars == <<xContent, xI, xFns, xPc>>
simVars == <<sA, sB, sOut, sPc>>
deepVars == <<runVars, savingsVars, extractVars, simVars>>
ciVars == <<ciIn, ciFailures, ciPrinted, ciExit, ciPc>>
batchVars == <<bArgs, bFiles, disk, bI, rewritten, skipped, failed,
               total_saved, bLog, bPc>>
cmdVars == <<ciVars, batchVars>>
vars == <<clVars, scanVars, gradeVars, deepVars, cmdVars>>

----------------------------------------------------------------------------
(* Bounds of the model *)

MaxContentLen == 5      \* characters of a text given to count_line_types
MaxEntries == 3         \* directory entries the walker visits in one scan
MaxTokenChoice == 2     \* token counts tried for one non-empty file
MaxTokens == 26         \* tokens argument of ratio / pct
MaxLines == 2           \* lines argument of ratio / pct
MaxFileLines == 5       \* lines of one file of a project given to deep::run
MaxProjectLines == 8    \* lines of all files of such a project
MaxColliding == 2       \* texts that share one value of hash_str
MaxBodyTokens == 9      \* tokens of one function body
MaxFns == 3             \* functions of a file given to find_near_duplicates
BlockLines == 6         \* lines of a block that two files share
MaxOccurrences == 4     \* occurrences of a cluster given to estimate_savings
MaxClusterTokens == 12  \* tokens_per_instance of such a cluster
MaxBraceLines == 6      \* lines of a project of function heads and braces
MaxExtractLines == 4    \* lines of a text given to extract_functions
MaxStart == 3           \* last start line of a window of a cluster list
MaxSubsumeClusters == 3 \* clusters of a list given to the subsumption walk
MaxRankStart == 2       \* last start line of a window of a ranked cluster list
MaxRankSavings == 6     \* savings of a near-duplicate given to the sort
MaxWords == 5           \* words of a text given to string_similarity
MaxBatchFiles == 2      \* files of the project given to batch
MaxBatchTokens == 2     \* tokens of a file or of its rewrite in batch

----------------------------------------------------------------------------
(* Generic helpers *)

Min(a, b) == IF a <= b THEN a ELSE b

RECURSIVE SumSeq(_)
SumSeq(s) == IF s = <<>> THEN 0 ELSE Head(s) + SumSeq(Tail(s))

SeqsUpTo(S, n) == UNION {[1..k -> S] : k \in 0..n}

Range(s) == {s[i] : i \in 1..Len(s)}

----------------------------------------------------------------------------
(* Text: str::lines, str::trim, starts_with, contains *)

Alphabet == {"a", " ", "/", "*", "\n"}

\* char::is_whitespace, on the characters of the model
IsWhitespace(c) == c \in {" ", "\n"}

\* index of the first "\n" of s, 0 when there is none
RECURSIVE FirstNewline(_, _)
FirstNewline(s, i) ==
    IF i > Len(s) THEN 0
    ELSE IF s[i] = "\n" THEN i
    ELSE FirstNewline(s, i + 1)

\* content.lines(): split at "\n"; a final "\n" does not open another line
RECURSIVE StrLines(_)
StrLines(s) ==
    IF s = <<>> THEN <<>>
    ELSE LET n == FirstNewline(s, 1) IN
         IF n = 0 THEN <<s>>
         ELSE <<SubSeq(s, 1, n - 1)>> \o StrLines(SubSeq(s, n + 1, Len(s)))

RECURSIVE TrimStart(_)
TrimStart(s) ==
    IF s # <<>> /\ IsWhitespace(Head(s)) THEN TrimStart(Tail(s)) ELSE s

RECURSIVE TrimEnd(_)
TrimEnd(s) ==
    IF s # <<>> /\ IsWhitespace(s[Len(s)])
    THEN TrimEnd(SubSeq(s, 1, Len(s) - 1)) ELSE s

Trim(s) == TrimEnd(TrimStart(s))

StartsWithAnywhere(s, p) ==
    \E i \in 1..(Len(s) - Len(p) + 1) : SubSeq(s, i, i + Len(p) - 1) = p

StartsWith(s, p) == Len(s) >= Len(p) /\ SubSeq(s, 1, Len(p)) = p

StrContains(s, p) ==
    \E i \in 1..(Len(s) - Len(p) + 1) : SubSeq(s, i, i + Len(p) - 1) = p

SlashSlash == <<"/", "/">>
SlashStar == <<"/", "*">>
StarSlash == <<"*", "/">>

----------------------------------------------------------------------------
(* count_line_types: the loop body and the whole function *)

CountersInit == [code |-> 0, comments |-> 0, blanks |-> 0,
                 in_block_comment |-> FALSE]

LineStepNoCommentCount(st, line) ==
    LET trimmed == Trim(line) IN
    IF trimmed = <<>> THEN [st EXCEPT !.blanks = @ + 1]
    ELSE IF st.in_block_comment THEN
        [st EXCEPT !.comments = @ + 1,
                   !.in_block_comment = ~StrContains(trimmed, StarSlash)]
    ELSE IF StartsWith(trimmed, SlashSlash) THEN [st EXCEPT !.comments = @ + 1]
    ELSE IF StartsWith(trimmed, SlashStar) THEN
        [st EXCEPT !.in_block_comment = ~StrContains(trimmed, StarSlash)]
    ELSE [st EXCEPT !.code = @ + 1]

LineStep(st, line) ==
    LET trimmed == Trim(line) IN
    IF trimmed = <<>> THEN [st EXCEPT !.blanks = @ + 1]
    ELSE IF st.in_block_comment THEN
        [st EXCEPT !.comments = @ + 1,
                   !.in_block_comment = ~StrContains(trimmed, StarSlash)]
    ELSE IF StartsWith(trimmed, SlashSlash) THEN [st EXCEPT !.comments = @ + 1]
    ELSE IF StartsWith(trimmed, SlashStar) THEN
        [st EXCEPT !.comments = @ + 1,
                   !.in_block_comment = ~StrContains(trimmed, StarSlash)]
    ELSE [st EXCEPT !.code = @ + 1]

RECURSIVE FoldLines(_, _)
FoldLines(st, ls) ==
    IF ls = <<>> THEN st ELSE FoldLines(LineStep(st, Head(ls)), Tail(ls))

count_line_types(text) ==
    LET st == FoldLines(CountersInit, StrLines(text))
    IN <<st.code, st.comments, st.blanks>>

----------------------------------------------------------------------------
(* count_line_types as a state machine: one step per line of the text *)

InitLines ==
    /\ content \in SeqsUpTo(Alphabet, MaxContentLen)
    /\ lineNo = 0
    /\ code = 0
    /\ comments = 0
    /\ blanks = 0
    /\ in_block_comment = FALSE
    /\ clPc = "loop"

IdleLines ==
    /\ content = <<>>
    /\ lineNo = 0
    /\ code = 0
    /\ comments = 0
    /\ blanks = 0
    /\ in_block_comment = FALSE
    /\ clPc = "idle"

ClassifyLine ==
    /\ clPc = "loop"
    /\ lineNo < Len(StrLines(content))
    /\ LET st == LineStep([code |-> code, comments |-> comments,
                           blanks |-> blanks,
                           in_block_comment |-> in_block_comment],
                          StrLines(content)[lineNo + 1])
       IN /\ code' = st.code
          /\ comments' = st.comments
          /\ blanks' = st.blanks
          /\ in_block_comment' = st.in_block_comment
    /\ lineNo' = lineNo + 1
    /\ UNCHANGED <<content, clPc, scanVars, gradeVars, deepVars, cmdVars>>

ClassifyReturn ==
    /\ clPc = "loop"
    /\ lineNo = Len(StrLines(content))
    /\ clPc' = "returned"
    /\ UNCHANGED <<content, lineNo, code, comments, blanks, in_block_comment,
                   scanVars, gradeVars, deepVars, cmdVars>>

NextLines == ClassifyLine \/ ClassifyReturn

----------------------------------------------------------------------------
(* ratio, pct *)

Zero == <<0, 1>>

RatEq(r, q) == r[1] * q[2] = q[1] * r[2]
RatLeq(r, q) == r[1] * q[2] <= q[1] * r[2]
RatIsZero(r) == r[1] = 0

ratioUnguarded(tokens, lines) == <<tokens, lines>>

ratio(tokens, lines) == IF lines > 0 THEN <<tokens, lines>> ELSE Zero

pct(part, total) == IF total > 0 THEN <<part * 100, total>> ELSE Zero

----------------------------------------------------------------------------
(* rust_file_walker: the entries of the tree and the two filters *)

CurDir == <<".">>
TargetName == <<"target">>
RsExt == <<"rs">>

\* index of the last "." piece of a file name, 0 when there is none
RECURSIVE LastDot(_, _)
LastDot(name, i) ==
    IF i = 0 THEN 0 ELSE IF name[i] = "." THEN i ELSE LastDot(name, i - 1)

\* Path::extension as an option: <<>> is None, <<e>> is Some(e)
Extension(path) ==
    LET name == path[Len(path)]
        d == LastDot(name, Len(name))
    IN IF name = CurDir \/ d <= 1 THEN <<>>
       ELSE <<SubSeq(name, d + 1, Len(name))>>

NotUnderTargetTopOnly(path) ==
    IF Len(path) < 2 THEN TRUE ELSE path[2] # TargetName

NotUnderTarget(path) == ~(\E i \in 1..Len(path) : path[i] = TargetName)

HasRsExtension(path) == Extension(path) = <<RsExt>>

WalkerYields(path) == NotUnderTarget(path) /\ HasRsExtension(path)

\* file_path.strip_prefix(".").unwrap_or(file_path)
Display(path) == IF Head(path) = CurDir THEN Tail(path) ELSE path

\* The tree under the working directory
FileSystem == {
    [path |-> <<CurDir>>, isDir |-> TRUE, content |-> <<>>],
    [path |-> <<CurDir, <<"src">>>>, isDir |-> TRUE, content |-> <<>>],
    [path |-> <<CurDir, <<"src">>, <<"a", ".", "rs">>>>, isDir |-> FALSE,
     content |-> <<"/", "*", "\n", "a", "\n", "*", "/", "\n", "a">>],
    [path |-> <<CurDir, <<"src">>, <<"lib", ".", "rs">>>>, isDir |-> FALSE,
     content |-> <<"/", "/", "a", "\n", " ", "\n", "a", "\n">>],
    [path |-> <<CurDir, <<"target", ".", "rs">>>>, isDir |-> FALSE,
     content |-> <<>>],
    [path |-> <<CurDir, <<"gen", ".", "rs">>>>, isDir |-> TRUE,
     content |-> <<>>],
    [path |-> <<CurDir, <<"src">>, <<"d", ".", "txt">>>>, isDir |-> FALSE,
     content |-> <<"a">>],
    [path |-> <<CurDir, <<".", "rs">>>>, isDir |-> FALSE,
     content |-> <<"a">>],
    [path |-> <<CurDir, TargetName, <<"b", ".", "rs">>>>, isDir |-> FALSE,
     content |-> <<"a", "\n">>],
    [path |-> <<CurDir, <<"src">>, TargetName, <<"c", ".", "rs">>>>,
     isDir |-> FALSE, content |-> <<"a", "\n", "a">>] }

\* bpe.encode_with_special_tokens(&content).len(): the tokenizer is a library;
\* it yields no token for the empty text and at least one, at most one per
\* byte, for any other
TokenCounts(text) ==
    IF text = <<>> THEN {0} ELSE 1..Min(Len(text), MaxTokenChoice)

----------------------------------------------------------------------------
(* scan_project *)

FileStatsRatioSwapped(entry, tokens) ==
    LET lines == Len(StrLines(entry.content)) IN
    [path |-> Display(entry.path), content |-> entry.content,
     lines |-> lines, tokens |-> tokens, ratio |-> ratio(lines, tokens)]

FileStats(entry, tokens) ==
    LET lines == Len(StrLines(entry.content)) IN
    [path |-> Display(entry.path), content |-> entry.content,
     lines |-> lines, tokens |-> tokens, ratio |-> ratio(tokens, lines)]

\* the loop body after a successful read: the ProjectStats under construction
ScanFileDropsTokens(acc, entry, tokens) ==
    LET fs == FileStats(entry, tokens)
        counts == count_line_types(entry.content)
    IN [files |-> Append(acc.files, fs),
        total_lines |-> acc.total_lines + fs.lines,
        total_tokens |-> tokens,
        code_lines |-> acc.code_lines + counts[1],
        comment_lines |-> acc.comment_lines + counts[2],
        blank_lines |-> acc.blank_lines + counts[3]]

ScanFile(acc, entry, tokens) ==
    LET fs == FileStats(entry, tokens)
        counts == count_line_types(entry.content)
    IN [files |-> Append(acc.files, fs),
        total_lines |-> acc.total_lines + fs.lines,
        total_tokens |-> acc.total_tokens + tokens,
        code_lines |-> acc.code_lines + counts[1],
        comment_lines |-> acc.comment_lines + counts[2],
        blank_lines |-> acc.blank_lines + counts[3]]

ProjectStats ==
    [files |-> files, total_lines |-> total_lines,
     total_tokens |-> total_tokens, code_lines |-> code_lines,
     comment_lines |-> comment_lines, blank_lines |-> blank_lines]

Walks ==
    {w \in SeqsUpTo(FileSystem, MaxEntries) :
        \A i, j \in 1..Len(w) : i # j => w[i] # w[j]}

InitScan ==
    /\ walk \in Walks
    /\ pos = 0
    /\ files = <<>>
    /\ total_lines = 0
    /\ total_tokens = 0
    /\ code_lines = 0
    /\ comment_lines = 0
    /\ blank_lines = 0
    /\ warnings = <<>>
    /\ scanResult = "start"

IdleScan ==
    /\ walk = <<>>
    /\ pos = 0
    /\ files = <<>>
    /\ total_lines = 0
    /\ total_tokens = 0
    /\ code_lines = 0
    /\ comment_lines = 0
    /\ blank_lines = 0
    /\ warnings = <<>>
    /\ scanResult = "idle"

\* let bpe = o200k_base()?;
BpeInitOk ==
    /\ scanResult = "start"
    /\ scanResult' = "running"
    /\ UNCHANGED <<walk, pos, files, total_lines, total_tokens, code_lines,
                   comment_lines, blank_lines, warnings, clVars, gradeVars, deepVars, cmdVars>>

BpeInitFail ==
    /\ scanResult = "start"
    /\ scanResult' = "Err"
    /\ UNCHANGED <<walk, pos, files, total_lines, total_tokens, code_lines,
                   comment_lines, blank_lines, warnings, clVars, gradeVars, deepVars, cmdVars>>

\* the walker's filters drop the next directory entry
WalkerSkip ==
    /\ scanResult = "running"
    /\ pos < Len(walk)
    /\ ~WalkerYields(walk[pos + 1].path)
    /\ pos' = pos + 1
    /\ UNCHANGED <<walk, files, total_lines, total_tokens, code_lines,
                   comment_lines, blank_lines, warnings, scanResult,
                   clVars, gradeVars, deepVars, cmdVars>>

\* read_to_string fails (always for a directory): warn and continue
ScanReadFail ==
    /\ scanResult = "running"
    /\ pos < Len(walk)
    /\ WalkerYields(walk[pos + 1].path)
    /\ warnings' = Append(warnings, walk[pos + 1].path)
    /\ pos' = pos + 1
    /\ UNCHANGED <<walk, files, total_lines, total_tokens, code_lines,
                   comment_lines, blank_lines, scanResult, clVars, gradeVars, deepVars, cmdVars>>

ScanReadOk ==
    /\ scanResult = "running"
    /\ pos < Len(walk)
    /\ WalkerYields(walk[pos + 1].path)
    /\ ~walk[pos + 1].isDir
    /\ \E tokens \in TokenCounts(walk[pos + 1].content) :
         LET acc == ScanFile(ProjectStats, walk[pos + 1], tokens) IN
         /\ files' = acc.files
         /\ total_lines' = acc.total_lines
         /\ total_tokens' = acc.total_tokens
         /\ code_lines' = acc.code_lines
         /\ comment_lines' = acc.comment_lines
         /\ blank_lines' = acc.blank_lines
    /\ pos' = pos + 1
    /\ UNCHANGED <<walk, warnings, scanResult, clVars, gradeVars, deepVars, cmdVars>>

ScanReturn ==
    /\ scanResult = "running"
    /\ pos = Len(walk)
    /\ scanResult' = "Ok"
    /\ UNCHANGED <<walk, pos, files, total_lines, total_tokens, code_lines,
                   comment_lines, blank_lines, warnings, clVars, gradeVars, deepVars, cmdVars>>

NextScan ==
    \/ BpeInitOk
    \/ BpeInitFail
    \/ WalkerSkip
    \/ ScanReadFail
    \/ ScanReadOk
    \/ ScanReturn

----------------------------------------------------------------------------
(* efficiency_grade (tokens.rs) and grade_rank (ci.rs) *)

Five == <<5, 1>>
Seven == <<7, 1>>
Nine == <<9, 1>>
Twelve == <<12, 1>>

efficiency_grade_strict(r) ==
    IF r[1] * Five[2] < Five[1] * r[2] THEN <<"A%2B", "brightgreen", "A+">>
    ELSE IF r[1] * Seven[2] < Seven[1] * r[2] THEN <<"A", "green", "A">>
    ELSE IF r[1] * Nine[2] < Nine[1] * r[2] THEN <<"B", "blue", "B">>
    ELSE IF r[1] * Twelve[2] < Twelve[1] * r[2] THEN <<"C", "orange", "C">>
    ELSE <<"D", "red", "D">>

efficiency_grade_plain_plus(r) ==
    IF RatLeq(r, Five) THEN <<"A+", "brightgreen", "A+">>
    ELSE IF RatLeq(r, Seven) THEN <<"A", "green", "A">>
    ELSE IF RatLeq(r, Nine) THEN <<"B", "blue", "B">>
    ELSE IF RatLeq(r, Twelve) THEN <<"C", "orange", "C">>
    ELSE <<"D", "red", "D">>

efficiency_grade(r) ==
    IF RatLeq(r, Five) THEN <<"A%2B", "brightgreen", "A+">>
    ELSE IF RatLeq(r, Seven) THEN <<"A", "green", "A">>
    ELSE IF RatLeq(r, Nine) THEN <<"B", "blue", "B">>
    ELSE IF RatLeq(r, Twelve) THEN <<"C", "orange", "C">>
    ELSE <<"D", "red", "D">>

grade_rank_b_c_swapped(grade) ==
    CASE grade = "A+" -> 5
      [] grade = "A" -> 4
      [] grade = "B" -> 2
      [] grade = "C" -> 3
      [] grade = "D" -> 1
      [] OTHER -> 0

grade_rank(grade) ==
    CASE grade = "A+" -> 5
      [] grade = "A" -> 4
      [] grade = "B" -> 3
      [] grade = "C" -> 2
      [] grade = "D" -> 1
      [] OTHER -> 0

GradeInputs == [tokens : 0..MaxTokens, lines : 0..MaxLines]

InitGrade ==
    /\ gIn \in [1..2 -> GradeInputs]
    /\ gRatio = <<>>
    /\ gPct = <<>>
    /\ gGrade = <<>>
    /\ gPc = "args"

IdleGrade ==
    /\ gIn = <<>>
    /\ gRatio = <<>>
    /\ gPct = <<>>
    /\ gGrade = <<>>
    /\ gPc = "idle"

CallRatio ==
    /\ gPc = "args"
    /\ gRatio' = [i \in 1..2 |-> ratio(gIn[i].tokens, gIn[i].lines)]
    /\ gPc' = "ratio"
    /\ UNCHANGED <<gIn, gPct, gGrade, clVars, scanVars, deepVars, cmdVars>>

CallPct ==
    /\ gPc = "args"
    /\ gPct' = [i \in 1..2 |-> pct(gIn[i].tokens, gIn[i].lines)]
    /\ gPc' = "pct"
    /\ UNCHANGED <<gIn, gRatio, gGrade, clVars, scanVars, deepVars, cmdVars>>

CallGrade ==
    /\ gPc = "ratio"
    /\ gGrade' = [i \in 1..2 |-> efficiency_grade(gRatio[i])]
    /\ gPc' = "graded"
    /\ UNCHANGED <<gIn, gRatio, gPct, clVars, scanVars, deepVars, cmdVars>>

NextGrade == CallRatio \/ CallPct \/ CallGrade

----------------------------------------------------------------------------
(* deep.rs: lines, normalization, windows *)

\* A file is the sequence of its lines, content.lines(); a line is a
\* sequence of characters without "\n".

\* a whitespace-only line, an indented statement of 8 bytes, and a statement
\* of 4 characters whose first takes two bytes in UTF-8
LineBlank == <<" ">>
LineCall == <<" ", "a", "l", "p", "h", "a", "(", ")", ";">>
LineShort == <<"é", "(", ")", ";">>

SourceLines == {LineBlank, LineCall, LineShort}

WINDOW_SIZE == 3
TrivialLen == 20

\* the bytes of a character in UTF-8
Utf8Len(c) == IF c = "é" THEN 2 ELSE 1

\* str::len: the length in bytes
RECURSIVE StrLen(_)
StrLen(s) == IF s = <<>> THEN 0 ELSE Utf8Len(Head(s)) + StrLen(Tail(s))

\* index of the first whitespace character of s from i on, Len(s) + 1 when
\* there is none
RECURSIVE FirstWhitespace(_, _)
FirstWhitespace(s, i) ==
    IF i > Len(s) THEN i
    ELSE IF IsWhitespace(s[i]) THEN i
    ELSE FirstWhitespace(s, i + 1)

\* str::split_whitespace: the maximal runs of non-whitespace characters
RECURSIVE split_whitespace(_)
split_whitespace(s) ==
    LET t == TrimStart(s) IN
    IF t = <<>> THEN <<>>
    ELSE LET n == FirstWhitespace(t, 1)
         IN <<SubSeq(t, 1, n - 1)>> \o split_whitespace(SubSeq(t, n, Len(t)))

\* [..].join(sep)
RECURSIVE Join(_, _)
Join(parts, sep) ==
    IF parts = <<>> THEN <<>>
    ELSE IF Len(parts) = 1 THEN parts[1]
    ELSE parts[1] \o sep \o Join(Tail(parts), sep)

\* line.split_whitespace().collect::<Vec<_>>().join(" ")
normalize_line(line) == Join(split_whitespace(line), <<" ">>)

\* 0-based indices of the non-empty lines, in order
NonBlankIdx(lines) ==
    LET ks == SelectSeq([k \in 1..Len(lines) |-> k],
                        LAMBDA k : lines[k] # <<>>)
    IN [j \in 1..Len(ks) |-> ks[j] - 1]

\* find_duplicate_blocks, first loop: the windows of one file that are
\* hashed, as <<fingerprint, combined text>>
FileWindowsKeepTrivial(norm, file_idx) ==
    LET lines == norm[file_idx + 1]
        nb == NonBlankIdx(lines)
        all == [j \in 1..(IF Len(nb) < WINDOW_SIZE THEN 0
                          ELSE Len(nb) - WINDOW_SIZE + 1) |->
                  [fp |-> [file_idx |-> file_idx, start_line |-> nb[j]],
                   combined |-> Join([k \in 1..WINDOW_SIZE |->
                                         lines[nb[j + k - 1] + 1]],
                                     <<"\n">>)]]
    IN all

FileWindows(norm, file_idx) ==
    LET lines == norm[file_idx + 1]
        nb == NonBlankIdx(lines)
        all == [j \in 1..(IF Len(nb) < WINDOW_SIZE THEN 0
                          ELSE Len(nb) - WINDOW_SIZE + 1) |->
                  [fp |-> [file_idx |-> file_idx, start_line |-> nb[j]],
                   combined |-> Join([k \in 1..WINDOW_SIZE |->
                                         lines[nb[j + k - 1] + 1]],
                                     <<"\n">>)]]
    IN SelectSeq(all, LAMBDA w : ~(StrLen(w.combined) < TrivialLen))

RECURSIVE WindowsFrom(_, _)
WindowsFrom(norm, file_idx) ==
    IF file_idx >= Len(norm) THEN <<>>
    ELSE FileWindows(norm, file_idx) \o WindowsFrom(norm, file_idx + 1)

AllWindows(norm) == WindowsFrom(norm, 0)

\* the distinct texts of the windows, in the order in which they first come
RECURSIVE FirstTexts(_, _)
FirstTexts(ws, seen) ==
    IF ws = <<>> THEN seen
    ELSE FirstTexts(Tail(ws),
                    IF \E i \in 1..Len(seen) : seen[i] = Head(ws).combined
                    THEN seen ELSE Append(seen, Head(ws).combined))

\* hash_str: a function of the text.  Only the equality of two hash values
\* matters (the map's iteration order is arbitrary on its own), so the value
\* of a text is the number of the first text with that value, in the order
\* in which the first loop meets the texts.  Either no two texts collide, or
\* one group of at most MaxColliding texts shares a value.
HashFunctions(order) ==
    LET n == Len(order)
        groups == {G \in SUBSET (1..n) :
                      Cardinality(G) = 0
                      \/ (Cardinality(G) >= 2 /\ Cardinality(G) <= MaxColliding)}
        First(G) == CHOOSE i \in G : \A j \in G : i <= j
    IN {[t \in Range(order) |->
            LET i == CHOOSE k \in 1..n : order[k] = t
            IN IF i \in G THEN First(G) ELSE i] : G \in groups}

\* the map after the first loop: hash -> fingerprints in insertion order
BuildMap(ws, h) ==
    LET keys == {h[ws[i].combined] : i \in 1..Len(ws)}
    IN [key \in keys |->
          LET hit == SelectSeq(ws, LAMBDA w : h[w.combined] = key)
          IN [i \in 1..Len(hit) |-> hit[i].fp]]

\* v[lo..=hi] on a slice of len elements does not panic
SliceInclusiveInRange(len, lo, hi) == lo <= hi + 1 /\ hi < len

\* v[lo..] on a slice of len elements does not panic
SliceFromInRange(len, lo) == lo <= len

\* v[k] on a slice of len elements does not panic
IndexInRange(len, k) == k < len

\* get_window_text: the first WINDOW_SIZE non-empty lines from start on
get_window_text(norm, file_idx, start) ==
    LET lines == norm[file_idx + 1]
        rest == SubSeq(lines, start + 1, Len(lines))
        nb == SelectSeq(rest, LAMBDA l : l # <<>>)
    IN Join(SubSeq(nb, 1, Min(WINDOW_SIZE, Len(nb))), <<"\n">>)

\* the loop shared by find_window_end and get_original_window: the index at
\* which the WINDOW_SIZE-th non-blank line from start on is found, or the
\* last index of the file
RECURSIVE ScanEnd(_, _, _, _)
ScanEnd(blank, i, collected, end) ==
    IF i >= Len(blank) THEN end
    ELSE LET c == IF blank[i + 1] THEN collected ELSE collected + 1 IN
         IF c >= WINDOW_SIZE THEN i ELSE ScanEnd(blank, i + 1, c, i)

find_window_end(norm, file_idx, start) ==
    LET lines == norm[file_idx + 1]
    IN ScanEnd([k \in 1..Len(lines) |-> lines[k] = <<>>], start, 0, start)

get_original_window_three_lines(file, start_line) ==
    Join(SubSeq(file, start_line + 1,
                Min(start_line + WINDOW_SIZE - 1, Len(file) - 1) + 1),
         <<"\n">>)

\* lines[start_line..=end.min(lines.len() - 1)].join("\n")
get_original_window(file, start_line) ==
    LET end == ScanEnd([k \in 1..Len(file) |-> Trim(file[k]) = <<>>],
                       start_line, 0, start_line)
    IN Join(SubSeq(file, start_line + 1, Min(end, Len(file) - 1) + 1),
            <<"\n">>)

\* get_window_text indexes out of range: normalized[file_idx], lines[start..]
WindowTextPanics(norm, file_idx, start) ==
    \/ ~IndexInRange(Len(norm), file_idx)
    \/ ~SliceFromInRange(Len(norm[file_idx + 1]), start)

\* find_window_end indexes out of range: normalized[file_idx]
WindowEndPanics(norm, file_idx, start) == ~IndexInRange(Len(norm), file_idx)

\* get_original_window underflows in lines.len() - 1 or slices out of range
\* in lines[start_line..=end.min(lines.len() - 1)]
OriginalWindowPanics(file, start_line) ==
    \/ Len(file) < 1
    \/ LET end == ScanEnd([k \in 1..Len(file) |-> Trim(file[k]) = <<>>],
                          start_line, 0, start_line)
       IN ~SliceInclusiveInRange(Len(file), start_line,
                                 Min(end, Len(file) - 1))

\* tokens::count_tokens(&preview).unwrap_or(0): 0 when the vocabulary does not
\* load, else the tokenizer's count for the preview (at least 1: a preview
\* holds a non-blank line)
PreviewTokenCounts == 0..MaxTokenChoice

estimate_savings_every_instance(cluster) ==
    LET instances == Len(cluster.occurrences) IN
    IF instances <= 1 THEN 0
    ELSE (cluster.tokens_per_instance * instances * 80) \div 100

\* usize arithmetic; the product stays far below 2^64 for any token and
\* occurrence count a project in memory can give
estimate_savings(cluster) ==
    LET instances == Len(cluster.occurrences) IN
    IF instances <= 1 THEN 0
    ELSE (cluster.tokens_per_instance * (instances - 1) * 80) \div 100

----------------------------------------------------------------------------
(* find_duplicate_blocks: clusters, sort, subsumption *)

FileIndices(fps) == {fps[i].file_idx : i \in 1..Len(fps)}

SpansTwoFilesAny(fps) == Len(fps) >= 2

SpansTwoFiles(fps) == Cardinality(FileIndices(fps)) >= 2

AllMatchAny(norm, fps) ==
    LET first_text == get_window_text(norm, fps[1].file_idx, fps[1].start_line)
    IN \E i \in 1..Len(fps) :
          get_window_text(norm, fps[i].file_idx, fps[i].start_line)
            = first_text

AllMatch(norm, fps) ==
    LET first_text == get_window_text(norm, fps[1].file_idx, fps[1].start_line)
    IN \A i \in 1..Len(fps) :
          get_window_text(norm, fps[i].file_idx, fps[i].start_line)
            = first_text

MakeCluster(files_, norm, fps, tokens) ==
    [occurrences |->
        [i \in 1..Len(fps) |->
            <<fps[i].file_idx, fps[i].start_line,
              find_window_end(norm, fps[i].file_idx, fps[i].start_line)>>],
     preview |-> get_original_window(files_[fps[1].file_idx + 1],
                                     fps[1].start_line),
     tokens_per_instance |-> tokens]

\* the second loop of find_duplicate_blocks panics on the bucket fps: an
\* index out of range in fps[0], in stats.files[..] or in one of the three
\* window functions it calls
BucketPanics(files_, norm, fps) ==
    /\ SpansTwoFiles(fps)
    /\ \/ ~IndexInRange(Len(fps), 0)
       \/ \E i \in 1..Len(fps) :
             WindowTextPanics(norm, fps[i].file_idx, fps[i].start_line)
       \/ /\ AllMatch(norm, fps)
          /\ \/ ~IndexInRange(Len(files_), fps[1].file_idx)
             \/ OriginalWindowPanics(files_[fps[1].file_idx + 1],
                                     fps[1].start_line)
             \/ \E i \in 1..Len(fps) :
                   WindowEndPanics(norm, fps[i].file_idx, fps[i].start_line)

SortsBeforeBySavings(a, b) == estimate_savings(a) > estimate_savings(b)

\* the comparator of clusters.sort_by: a sorts before b
SortsBefore(a, b) ==
    \/ Len(a.occurrences) > Len(b.occurrences)
    \/ /\ Len(a.occurrences) = Len(b.occurrences)
       /\ estimate_savings(a) > estimate_savings(b)

\* sort_by is stable: a cluster goes behind every cluster it does not sort
\* before
RECURSIVE InsertSorted(_, _)
InsertSorted(sorted, c) ==
    IF sorted = <<>> THEN <<c>>
    ELSE IF SortsBefore(c, Head(sorted)) THEN <<c>> \o sorted
    ELSE <<Head(sorted)>> \o InsertSorted(Tail(sorted), c)

RECURSIVE SortClusters(_)
SortClusters(cs) ==
    IF cs = <<>> THEN <<>>
    ELSE InsertSorted(SortClusters(SubSeq(cs, 1, Len(cs) - 1)), cs[Len(cs)])

DominatedJointly(cluster, keptSoFar) ==
    \A i \in 1..Len(cluster.occurrences) :
      \E x \in 1..Len(keptSoFar) :
        \E j \in 1..Len(keptSoFar[x].occurrences) :
          LET o == cluster.occurrences[i]
              e == keptSoFar[x].occurrences[j]
          IN o[1] = e[1] /\ o[2] >= e[2] /\ o[2] <= e[3]

Dominated(cluster, keptSoFar) ==
    \E x \in 1..Len(keptSoFar) :
      \A i \in 1..Len(cluster.occurrences) :
        \E j \in 1..Len(keptSoFar[x].occurrences) :
          LET o == cluster.occurrences[i]
              e == keptSoFar[x].occurrences[j]
          IN o[1] = e[1] /\ o[2] >= e[2] /\ o[2] <= e[3]

RECURSIVE Subsume(_, _)
Subsume(cs, keptSoFar) ==
    IF cs = <<>> THEN keptSoFar
    ELSE Subsume(Tail(cs),
                 IF Dominated(Head(cs), keptSoFar) THEN keptSoFar
                 ELSE Append(keptSoFar, Head(cs)))

Orderings(S) ==
    {p \in [1..Cardinality(S) -> S] :
        \A i, j \in 1..Cardinality(S) : i # j => p[i] # p[j]}

----------------------------------------------------------------------------
(* extract_functions *)

\* str::find: the 1-based index of the first occurrence of p in s, 0 for None
RECURSIVE FindFrom(_, _, _)
FindFrom(s, p, i) ==
    IF i + Len(p) - 1 > Len(s) THEN 0
    ELSE IF SubSeq(s, i, i + Len(p) - 1) = p THEN i
    ELSE FindFrom(s, p, i + 1)

Find(s, p) == FindFrom(s, p, 1)

EndsWith(s, p) ==
    Len(s) >= Len(p) /\ SubSeq(s, Len(s) - Len(p) + 1, Len(s)) = p

\* char::is_alphanumeric, on the characters of the model
Alphanumeric ==
    {"a", "b", "c", "d", "e", "f", "g", "h", "i", "j", "k", "l", "m", "n",
     "o", "p", "q", "r", "s", "t", "u", "v", "w", "x", "y", "z", "é",
     "0", "1", "2", "3", "4", "5", "6", "7", "8", "9"}

IsNameChar(c) == c \in Alphanumeric \/ c = "_"

FnSpace == <<"f", "n", " ">>
Pub == <<"p", "u", "b">>
PubParen == <<"p", "u", "b", "(">>
Async == <<"a", "s", "y", "n", "c">>
Unsafe == <<"u", "n", "s", "a", "f", "e">>

PrefixAllowsFnAny(before) == TRUE

\* the test on the text in front of "fn "
PrefixAllowsFn(before) ==
    \/ before = <<>>
    \/ EndsWith(TrimEnd(before), Pub)
    \/ StrContains(before, PubParen)
    \/ EndsWith(TrimEnd(before), Async)
    \/ EndsWith(TrimEnd(before), Unsafe)

\* the longest prefix of s made of name characters
RECURSIVE NamePrefix(_)
NamePrefix(s) ==
    IF s # <<>> /\ IsNameChar(Head(s)) THEN <<Head(s)>> \o NamePrefix(Tail(s))
    ELSE <<>>

\* 0-based index of the first line from i on that contains "{", lines.len()
\* when there is none
RECURSIVE BraceLine(_, _)
BraceLine(lines, i) ==
    IF i >= Len(lines) THEN Len(lines)
    ELSE IF StrContains(lines[i + 1], <<"{">>) THEN i
    ELSE BraceLine(lines, i + 1)

\* depth after the characters of a line
RECURSIVE DepthAfter(_, _)
DepthAfter(depth, line) ==
    IF line = <<>> THEN depth
    ELSE DepthAfter(IF Head(line) = "{" THEN depth + 1
                    ELSE IF Head(line) = "}" THEN depth - 1
                    ELSE depth,
                    Tail(line))

\* the brace-counting loop: the first line from li on after which depth is 0,
\* else the value end was given before the loop
RECURSIVE BraceEnd(_, _, _, _)
BraceEnd(lines, li, depth, end) ==
    IF li >= Len(lines) THEN end
    ELSE LET d == DepthAfter(depth, lines[li + 1]) IN
         IF d = 0 THEN li ELSE BraceEnd(lines, li + 1, d, end)

BraceFoundAlways(lines, brace_line) == TRUE

\* if brace_line < lines.len()
BraceFound(lines, brace_line) == brace_line < Len(lines)

\* the while loop of extract_functions from line i on: the name, the first
\* line and the last line of every function it pushes
RECURSIVE FnSpansFrom(_, _)
FnSpansFrom(lines, i) ==
    IF i >= Len(lines) THEN <<>>
    ELSE
      LET trimmed == Trim(lines[i + 1])
          fn_pos == Find(trimmed, FnSpace)
          before == SubSeq(trimmed, 1, fn_pos - 1)
          name == NamePrefix(SubSeq(trimmed, fn_pos + 3, Len(trimmed)))
          brace_line == BraceLine(lines, i)
          end == BraceEnd(lines, brace_line, 0, brace_line)
      IN IF /\ fn_pos # 0
            /\ PrefixAllowsFn(before)
            /\ name # <<>>
            /\ BraceFound(lines, brace_line)
         THEN <<[name |-> name, line |-> i, end |-> end]>>
              \o FnSpansFrom(lines, end + 1)
         ELSE FnSpansFrom(lines, i + 1)

\* lines[i..=end] of extract_functions is out of range for some function
ExtractPanics(lines) ==
    \E span \in Range(FnSpansFrom(lines, 0)) :
       ~SliceInclusiveInRange(Len(lines), span.line, span.end)

\* FnInfo { name, line: i, body: lines[i..=end].join("\n") }
RECURSIVE FnInfos(_, _)
FnInfos(lines, spans) ==
    IF spans = <<>> THEN <<>>
    ELSE <<[name |-> Head(spans).name, line |-> Head(spans).line,
            body |-> Join(SubSeq(lines, Head(spans).line + 1,
                                 Head(spans).end + 1), <<"\n">>)]>>
         \o FnInfos(lines, Tail(spans))

extract_functions(lines) == FnInfos(lines, FnSpansFrom(lines, 0))

----------------------------------------------------------------------------
(* find_near_duplicates, string_similarity *)

MinBodyLen == 30
MinSavings == 5

Max(a, b) == IF a >= b THEN a ELSE b

\* string_similarity as the exact fraction <<numerator, denominator>>; 1.0 is
\* <<1, 1>> and 0.0 is <<0, 1>>.  matching / total is correctly rounded, and
\* the code compares it with 0.75 and 1.0 only, which f64 holds exactly.
string_similarity(a, b) ==
    IF a = <<>> /\ b = <<>> THEN <<1, 1>>
    ELSE IF a = <<>> \/ b = <<>> THEN <<0, 1>>
    ELSE LET words_a == split_whitespace(a)
             words_b == split_whitespace(b)
             matching == Len(SelectSeq(words_a,
                                       LAMBDA w : w \in Range(words_b)))
             total == Max(Len(words_a), Len(words_b))
         IN IF total = 0 THEN <<0, 1>> ELSE <<matching, total>>

\* similarity > 0.75 && similarity < 1.0
SimilarityInRangeClosed(sim) == sim[1] * 4 >= sim[2] * 3 /\ sim[1] < sim[2]

SimilarityInRange(sim) == sim[1] * 4 > sim[2] * 3 /\ sim[1] < sim[2]

\* tokens_a.min(tokens_b).saturating_mul(60) / 100
NearSavings(tokens_a, tokens_b) == (Min(tokens_a, tokens_b) * 60) \div 100

\* the pairs (i, j), i < j, of 1..n in the order of the two nested loops
RECURSIVE PairsFrom(_, _, _)
PairsFrom(i, j, n) ==
    IF i > n THEN <<>>
    ELSE IF j > n THEN PairsFrom(i + 1, i + 2, n)
    ELSE <<(<<i, j>>)>> \o PairsFrom(i, j + 1, n)

\* the pairs of functions of one file that pass the length test and the
\* similarity test, in the order of the loops
Candidates(fns) ==
    LET Passes(pr) ==
            LET norm_a == normalize_line(fns[pr[1]].body)
                norm_b == normalize_line(fns[pr[2]].body)
            IN /\ ~(StrLen(norm_a) < MinBodyLen \/ StrLen(norm_b) < MinBodyLen)
               /\ SimilarityInRange(string_similarity(norm_a, norm_b))
    IN SelectSeq(PairsFrom(1, 2, Len(fns)), Passes)

\* the NearDuplicates pushed for one file; tok is the tokenizer on the
\* bodies of the candidates
FileNearDuplicates(file_idx, fns, cand, tok) ==
    LET Savings(pr) == NearSavings(tok[fns[pr[1]].body], tok[fns[pr[2]].body])
        hits == SelectSeq(cand, LAMBDA pr : Savings(pr) >= MinSavings)
    IN [k \in 1..Len(hits) |->
          [file_idx |-> file_idx,
           fn_a |-> <<fns[hits[k][1]].name, fns[hits[k][1]].line>>,
           fn_b |-> <<fns[hits[k][2]].name, fns[hits[k][2]].line>>,
           savings |-> Savings(hits[k])]]

\* extract_functions(&file.content) of every file
RECURSIVE ExtractAll(_)
ExtractAll(files_) ==
    IF files_ = <<>> THEN <<>>
    ELSE <<extract_functions(Head(files_))>> \o ExtractAll(Tail(files_))

RECURSIVE CandidatesAll(_)
CandidatesAll(fnsAll) ==
    IF fnsAll = <<>> THEN <<>>
    ELSE <<Candidates(Head(fnsAll))>> \o CandidatesAll(Tail(fnsAll))

RECURSIVE NearFrom(_, _, _, _)
NearFrom(fnsAll, candAll, file_idx, tok) ==
    IF file_idx >= Len(fnsAll) THEN <<>>
    ELSE FileNearDuplicates(file_idx, fnsAll[file_idx + 1],
                            candAll[file_idx + 1], tok)
         \o NearFrom(fnsAll, candAll, file_idx + 1, tok)

\* results.sort_by(|a, b| b.savings.cmp(&a.savings)): stable, savings
\* descending
RECURSIVE InsertBySavings(_, _)
InsertBySavings(sorted, n) ==
    IF sorted = <<>> THEN <<n>>
    ELSE IF n.savings > Head(sorted).savings THEN <<n>> \o sorted
    ELSE <<Head(sorted)>> \o InsertBySavings(Tail(sorted), n)

RECURSIVE SortBySavings(_)
SortBySavings(ns) ==
    IF ns = <<>> THEN <<>>
    ELSE InsertBySavings(SortBySavings(SubSeq(ns, 1, Len(ns) - 1)),
                         ns[Len(ns)])

find_near_duplicates(fnsAll, candAll, tok) ==
    SortBySavings(NearFrom(fnsAll, candAll, 0, tok))

\* the function bodies that are tokenized: those of the candidates
Bodies(fnsAll, candAll) ==
    UNION {{fnsAll[f][candAll[f][k][i]].body :
               k \in 1..Len(candAll[f]), i \in 1..2} :
           f \in 1..Len(fnsAll)}

\* tokens::count_tokens(&body).unwrap_or(0) on the bodies of a project: 0
\* for every body when the vocabulary does not load, else the tokenizer's
\* count of each body
BodyTokenCounts == (MaxBodyTokens - 1)..MaxBodyTokens

Tokenizers(bodies) ==
    [bodies -> BodyTokenCounts] \cup {[body \in bodies |-> 0]}

----------------------------------------------------------------------------
(* deep::run as a state machine: normalize, fingerprint, cluster, dedupe *)

FilesOfLen(n) == [1..n -> SourceLines]

\* stats.files[..].content: the projects of no, one and two files of at most
\* MaxFileLines lines each and MaxProjectLines lines in all
IsProject(p) ==
    \/ p = <<>>
    \/ \E n \in 0..MaxFileLines : \E f \in FilesOfLen(n) : p = <<f>>
    \/ \E n \in 0..MaxFileLines :
          \E m \in 0..Min(MaxFileLines, MaxProjectLines - n) :
             \E f \in FilesOfLen(n) : \E g \in FilesOfLen(m) : p = <<f, g>>

\* the texts given to string_similarity: the empty text, a text of
\* whitespace, and the words x and y in any number and order, joined by one
\* space
SimilarityTexts ==
    {<<>>, <<" ">>}
    \cup {Join(ws, <<" ">>) :
            ws \in SeqsUpTo({<<"x">>, <<"y">>}, MaxWords) \ {<<>>}}

InitSim ==
    /\ sA \in SimilarityTexts
    /\ sB \in SimilarityTexts
    /\ sOut = <<>>
    /\ sPc = "call"

IdleSim ==
    /\ sA = <<>>
    /\ sB = <<>>
    /\ sOut = <<>>
    /\ sPc = "idle"

\* let similarity = string_similarity(&a, &b)
CallStringSimilarity ==
    /\ sPc = "call"
    /\ sOut' = string_similarity(sA, sB)
    /\ sPc' = "done"
    /\ UNCHANGED <<sA, sB, runVars, savingsVars, extractVars, clVars,
                   scanVars, gradeVars, cmdVars>>

NextSim == CallStringSimilarity

\* extract_functions as a call on any text
IdleExtract ==
    /\ xContent = <<>>
    /\ xI = 0
    /\ xFns = <<>>
    /\ xPc = "idle"

\* the lines of the texts: function heads with and without a brace, with a
\* closing brace and no opening one, with a name that is not ASCII, in a
\* comment and in a string literal
LineFnClose == Join(<<<<"f", "n">>, <<"f", "5", "(", ")">>, <<"}">>>>, <<" ">>)
LineFnAccent == Join(<<<<"f", "n">>, <<"é", "(", ")">>, <<"{">>>>, <<" ">>)
LineCommentFn ==
    Join(<<<<"/", "/">>, <<"f", "n">>, <<"f", "4", "(", ")">>, <<"{">>>>,
         <<" ">>)
LineCommentPubFn ==
    Join(<<<<"/", "/">>, <<"p", "u", "b">>, <<"f", "n">>,
           <<"f", "3", "(", ")">>, <<"{">>>>, <<" ">>)
LineStringFn ==
    Join(<<<<"\"", "f", "n">>, <<"s", "(", ")">>, <<"{", "\"">>>>, <<" ">>)
LineHeadOpen == Join(<<<<"f", "n">>, <<"f", "1", "(", ")">>, <<"{">>>>, <<" ">>)
LineHeadBare == Join(<<<<"f", "n">>, <<"f", "2", "(", ")">>>>, <<" ">>)

ExtractLines ==
    {LineHeadOpen, LineHeadBare, <<"}">>, LineFnClose, LineFnAccent,
     LineCommentFn, LineCommentPubFn, LineStringFn}

InitExtract ==
    /\ \E n \in 0..MaxExtractLines : xContent \in [1..n -> ExtractLines]
    /\ xI = 0
    /\ xFns = <<>>
    /\ xPc = "call"

\* let fns = extract_functions(content), or the panic of a slice out of range
CallExtractFunctions ==
    /\ xPc = "call"
    /\ IF ExtractPanics(xContent)
       THEN xFns' = <<>> /\ xPc' = "panicked"
       ELSE xFns' = extract_functions(xContent) /\ xPc' = "done"
    /\ UNCHANGED <<xContent, xI, runVars, savingsVars, simVars, clVars, scanVars,
                   gradeVars, cmdVars>>

NextExtract == CallExtractFunctions

\* function heads with and without a brace, and closing braces
ExtractLoopLines == {LineHeadOpen, LineHeadBare, <<"}">>, LineFnClose}

\* extract_functions one iteration of its while loop at a time
InitExtractLoop ==
    /\ \E n \in 0..MaxExtractLines : xContent \in [1..n -> ExtractLoopLines]
    /\ xI = 0
    /\ xFns = <<>>
    /\ xPc = "loop"

ResumeAtClose(end) == end

\* i = end + 1
ResumeAt(end) == end + 1

\* one iteration of while i < lines.len()
ExtractIteration ==
    /\ xPc = "loop"
    /\ xI < Len(xContent)
    /\ LET lines == xContent
           trimmed == Trim(lines[xI + 1])
           fn_pos == Find(trimmed, FnSpace)
           before == SubSeq(trimmed, 1, fn_pos - 1)
           name == NamePrefix(SubSeq(trimmed, fn_pos + 3, Len(trimmed)))
           brace_line == BraceLine(lines, xI)
           end == BraceEnd(lines, brace_line, 0, brace_line)
       IN IF /\ fn_pos # 0
             /\ PrefixAllowsFn(before)
             /\ name # <<>>
             /\ BraceFound(lines, brace_line)
          THEN IF SliceInclusiveInRange(Len(lines), xI, end)
               THEN /\ xFns' = Append(xFns,
                                      [name |-> name, line |-> xI,
                                       body |-> Join(SubSeq(lines, xI + 1,
                                                            end + 1),
                                                     <<"\n">>)])
                    /\ xI' = ResumeAt(end)
                    /\ xPc' = "loop"
               ELSE /\ xPc' = "panicked"
                    /\ UNCHANGED <<xI, xFns>>
          ELSE /\ xI' = xI + 1
               /\ UNCHANGED <<xFns, xPc>>
    /\ UNCHANGED <<xContent, runVars, savingsVars, simVars, clVars, scanVars,
                   gradeVars, cmdVars>>

\* the loop ends and fns is returned
ExtractReturn ==
    /\ xPc = "loop"
    /\ xI >= Len(xContent)
    /\ xPc' = "returned"
    /\ UNCHANGED <<xContent, xI, xFns, runVars, savingsVars, simVars,
                   clVars,
                   scanVars, gradeVars, cmdVars>>

NextExtractLoop == ExtractIteration \/ ExtractReturn

\* estimate_savings as a call on any cluster
SavingsInputs ==
    {[occurrences |-> [i \in 1..n |-> <<i - 1, 0, 2>>],
      preview |-> <<>>,
      tokens_per_instance |-> t] :
        n \in 0..MaxOccurrences, t \in 0..MaxClusterTokens}

InitSavings ==
    /\ eCluster \in SavingsInputs
    /\ eOut = 0
    /\ ePc = "call"

IdleSavings ==
    /\ eCluster = [occurrences |-> <<>>, preview |-> <<>>,
                   tokens_per_instance |-> 0]
    /\ eOut = 0
    /\ ePc = "idle"

CallEstimateSavings ==
    /\ ePc = "call"
    /\ eOut' = estimate_savings(eCluster)
    /\ ePc' = "done"
    /\ UNCHANGED <<eCluster, runVars, extractVars, simVars, clVars, scanVars,
                   gradeVars, cmdVars>>

NextSavings == CallEstimateSavings

InitDeep ==
    /\ IsProject(stats)
    /\ normalized = <<>>
    /\ map = <<>>
    /\ clusters = <<>>
    /\ kept = <<>>
    /\ near_dupes = <<>>
    /\ total_savings = 0
    /\ dPc = "run"
    /\ IdleSavings
    /\ IdleExtract
    /\ IdleSim

IdleRun ==
    /\ stats = <<>>
    /\ normalized = <<>>
    /\ map = <<>>
    /\ clusters = <<>>
    /\ kept = <<>>
    /\ near_dupes = <<>>
    /\ total_savings = 0
    /\ dPc = "idle"

IdleDeep == IdleRun /\ IdleSavings /\ IdleExtract /\ IdleSim

\* f.content.lines().map(normalize_line).collect()
RECURSIVE NormalizeLines(_)
NormalizeLines(lines) ==
    IF lines = <<>> THEN <<>>
    ELSE <<normalize_line(Head(lines))>> \o NormalizeLines(Tail(lines))

\* stats.files.iter().map(..).collect()
RECURSIVE NormalizeFiles(_)
NormalizeFiles(files_) ==
    IF files_ = <<>> THEN <<>>
    ELSE <<NormalizeLines(Head(files_))>> \o NormalizeFiles(Tail(files_))


\* the buckets of the map that pass both checks of the second loop
PassingKeys(norm, m) ==
    {key \in DOMAIN m : SpansTwoFiles(m[key]) /\ AllMatch(norm, m[key])}

\* the second loop, the sort and the subsumption of find_duplicate_blocks on
\* the map m.  map.values() comes in any order, so the buckets that pass
\* both checks are pushed in any order.
FindDuplicateBlocks(norm, m) ==
    LET pass == PassingKeys(norm, m)
    IN \E order \in Orderings(pass) :
       \E tokens \in [pass -> PreviewTokenCounts] :
          LET cs == [i \in 1..Len(order) |->
                       MakeCluster(stats, norm, m[order[i]],
                                   tokens[order[i]])]
          IN /\ clusters' = cs
             /\ kept' = Subsume(SortClusters(cs), <<>>)

\* what find_near_duplicates returns under the tokenizers
FindNearDuplicates(files_) ==
    LET fnsAll == ExtractAll(files_)
        candAll == CandidatesAll(fnsAll)
    IN {find_near_duplicates(fnsAll, candAll, tok) :
           tok \in Tokenizers(Bodies(fnsAll, candAll))}

TotalSavingsClustersOnly(cs, nds) ==
    SumSeq([i \in 1..Len(cs) |-> estimate_savings(cs[i])])

\* clusters.iter().map(estimate_savings).sum() + near_dupes...sum()
TotalSavings(cs, nds) ==
    SumSeq([i \in 1..Len(cs) |-> estimate_savings(cs[i])])
      + SumSeq([i \in 1..Len(nds) |-> nds[i].savings])

\* some index of find_duplicate_blocks is out of range, or some subtraction
\* underflows
BlocksPanic(files_, norm, m) ==
    \E key \in DOMAIN m : BucketPanics(files_, norm, m[key])

\* some index of find_near_duplicates is out of range
NearPanics(files_) == \E f \in 1..Len(files_) : ExtractPanics(files_[f])

\* deep::run, from the ProjectStats to the DeepResult (kept, near_dupes,
\* total_savings) under some hash function and some tokenizer, or to a panic
\* that returns nothing.  The two finders share no data, so the order in
\* which they are evaluated is immaterial.
Run ==
    /\ dPc = "run"
    /\ \E norm \in {NormalizeFiles(stats)} :
       \E ws \in {AllWindows(norm)} :
       \E nearPanics \in {NearPanics(stats)} :
       \E nds \in (IF nearPanics THEN {<<>>} ELSE FindNearDuplicates(stats)) :
       \E h \in HashFunctions(FirstTexts(ws, <<>>)) :
       \E m \in {BuildMap(ws, h)} :
          /\ normalized' = norm
          /\ map' = m
          /\ IF nearPanics \/ BlocksPanic(stats, norm, m)
             THEN /\ clusters' = <<>>
                  /\ kept' = <<>>
                  /\ near_dupes' = <<>>
                  /\ total_savings' = 0
                  /\ dPc' = "panicked"
             ELSE /\ FindDuplicateBlocks(norm, m)
                  /\ near_dupes' = nds
                  /\ total_savings' = TotalSavings(kept', nds)
                  /\ dPc' = "done"
    /\ UNCHANGED <<stats, savingsVars, extractVars, simVars, clVars, scanVars,
                   gradeVars, cmdVars>>

NextDeep == Run

\* Source text with functions: words, and functions written with them
Space == <<" ">>
WFn == <<"f", "n">>
WOpen == <<"{">>
WClose == <<"}">>
Alpha == <<"a", "l", "p", "h", "a">>
Beta == <<"b", "e", "t", "a">>
Gamma == <<"g", "a", "m", "m", "a">>
Delta == <<"d", "e", "l", "t", "a">>
Omega == <<"o", "m", "e", "g", "a">>
Game == <<"g", "a", "m", "é">>
Call(name) == name \o <<"(", ")">>

\* fn <name>() { <words> } on one line
OneLineFn(name, words) ==
    <<Join(<<WFn, Call(name), WOpen>> \o words \o <<WClose>>, Space)>>

\* the same on three lines, the words indented
ThreeLineFn(name, words) ==
    <<Join(<<WFn, Call(name), WOpen>>, Space),
      Space \o Space \o Join(words, Space),
      WClose>>

\* three functions of 8 words that differ in their names only
FnF1 == OneLineFn(<<"f", "1">>, <<Alpha, Beta, Gamma, Delta>>)
FnF2 == ThreeLineFn(<<"f", "2">>, <<Alpha, Beta, Gamma, Delta>>)
FnF4 == OneLineFn(<<"f", "4">>, <<Alpha, Beta, Gamma, Delta>>)
\* 6 of its 8 words are words of FnF1: similarity 0.75
FnF3 == OneLineFn(<<"f", "3">>, <<Alpha, Beta, Gamma, Omega>>)
\* two functions that call each other: every word of one is a word of the
\* other, similarity 1.0
FnG1 == OneLineFn(<<"g", "1">>, <<Call(<<"g", "2">>), Alpha, Beta, Gamma>>)
FnG2 == OneLineFn(<<"g", "2">>, <<Call(<<"g", "1">>), Alpha, Beta, Gamma>>)
\* two functions of 29 characters and 30 bytes that differ in their names
\* only
FnE1 == OneLineFn(<<"e", "1">>, <<Alpha, Beta, Game, <<"x">>>>)
FnE2 == OneLineFn(<<"e", "2">>, <<Alpha, Beta, Game, <<"x">>>>)

FunctionTexts == {FnF1, FnF2, FnF3, FnF4, FnG1, FnG2, FnE1, FnE2}

RECURSIVE Concat(_)
Concat(texts) ==
    IF texts = <<>> THEN <<>> ELSE Head(texts) \o Concat(Tail(texts))

\* the projects of one file of at most MaxFns functions, alone or with a
\* second file that holds FnF2
IsNearProject(p) ==
    \E n \in 0..MaxFns : \E pick \in [1..n -> FunctionTexts] :
       \/ p = <<Concat(pick)>>
       \/ p = <<Concat(pick), FnF2>>

InitNear ==
    /\ IsNearProject(stats)
    /\ normalized = <<>>
    /\ map = <<>>
    /\ clusters = <<>>
    /\ kept = <<>>
    /\ near_dupes = <<>>
    /\ total_savings = 0
    /\ dPc = "run"
    /\ IdleSavings
    /\ IdleExtract
    /\ IdleSim

\* the projects of two files that hold the same block of BlockLines
\* non-blank lines and nothing else but, in the second file, a blank line in
\* front of the block
IsBlockProject(p) ==
    \E block \in [1..BlockLines -> {LineCall, LineShort}] :
       \E lead \in {<<>>, <<LineBlank>>} :
          p = <<block, lead \o block>>

InitBlock ==
    /\ IsBlockProject(stats)
    /\ normalized = <<>>
    /\ map = <<>>
    /\ clusters = <<>>
    /\ kept = <<>>
    /\ near_dupes = <<>>
    /\ total_savings = 0
    /\ dPc = "run"
    /\ IdleSavings
    /\ IdleExtract
    /\ IdleSim

\* a function head with its opening brace, a function head without one
LineFnOpen == Join(<<WFn, Call(<<"f", "1">>), WOpen>>, Space)
LineFnBare == Join(<<WFn, Call(<<"f", "2">>)>>, Space)

BraceLines == {LineBlank, LineFnOpen, LineFnBare, WClose}

\* the projects of no, one and two files of function heads, closing braces
\* and blank lines, MaxBraceLines lines in all and two fewer in a file: empty
\* files, blank files, files of fewer than three non-blank lines, braces that
\* do not balance
IsBraceProject(p) ==
    LET FilesUpTo(k) ==
            UNION {[1..n -> BraceLines] : n \in 0..Min(k, MaxBraceLines - 2)}
    IN \/ p = <<>>
       \/ \E f \in FilesUpTo(MaxBraceLines) : p = <<f>>
       \/ \E f \in FilesUpTo(MaxBraceLines) :
             \E g \in FilesUpTo(MaxBraceLines - Len(f)) : p = <<f, g>>

InitBrace ==
    /\ IsBraceProject(stats)
    /\ normalized = <<>>
    /\ map = <<>>
    /\ clusters = <<>>
    /\ kept = <<>>
    /\ near_dupes = <<>>
    /\ total_savings = 0
    /\ dPc = "run"
    /\ IdleSavings
    /\ IdleExtract
    /\ IdleSim

----------------------------------------------------------------------------
(* ci::run (ci.rs) *)

\* Option<T>: <<>> is None, <<v>> is Some(v)
BudgetChoices == {<<>>, <<0>>, <<MaxTokens \div 2>>, <<MaxTokens>>}
RatioChoices == {<<>>, <<Seven>>, <<<<13, 2>>>>}
GradeChoices == {<<>>, <<"A+">>, <<"A">>, <<"B">>, <<"C">>, <<"D">>, <<"X">>}

\* the totals that scan_project returns and the arguments of ci
CiInputs ==
    [total_tokens : 0..MaxTokens, total_lines : 0..MaxLines,
     max_tokens : BudgetChoices, max_tl : RatioChoices,
     min_grade : GradeChoices, json : BOOLEAN]

InitCi ==
    /\ ciIn \in CiInputs
    /\ ciFailures = <<>>
    /\ ciPrinted = <<>>
    /\ ciExit = 0
    /\ ciPc = "run"

IdleCi ==
    /\ ciIn = <<>>
    /\ ciFailures = <<>>
    /\ ciPrinted = <<>>
    /\ ciExit = 0
    /\ ciPc = "idle"


TokenBudgetFails(in) ==
    in.max_tokens # <<>> /\ in.total_tokens > in.max_tokens[1]

RatioFailsAtLimit(in, avg_ratio) ==
    in.max_tl # <<>> /\ RatLeq(in.max_tl[1], avg_ratio)

\* if let Some(max) = max_tl && avg_ratio > max
RatioFails(in, avg_ratio) ==
    in.max_tl # <<>> /\ ~RatLeq(avg_ratio, in.max_tl[1])

GradeFails(in, grade) ==
    in.min_grade # <<>> /\ grade_rank(grade) < grade_rank(in.min_grade[1])

\* the failures pushed by the three checks, in their order
Failures(in) ==
    LET avg_ratio == ratio(in.total_tokens, in.total_lines)
        grade == efficiency_grade(avg_ratio)[3]
    IN (IF TokenBudgetFails(in) THEN <<"token budget exceeded">> ELSE <<>>)
       \o (IF RatioFails(in, avg_ratio) THEN <<"T/L ratio too high">>
           ELSE <<>>)
       \o (IF GradeFails(in, grade) THEN <<"grade too low">> ELSE <<>>)

\* print_json: pass and failures of CiOutput
print_json(failures) ==
    <<[format |-> "json", pass |-> failures = <<>>, failures |-> failures]>>

\* print_human: PASS, or the FAIL lines and FAILED
print_human(failures) ==
    <<[format |-> "human", pass |-> failures = <<>>, failures |-> failures]>>

\* ci::run and the exit status main gives it: scan_project()? returns the
\* error to main, which exits with status 1 and prints no verdict
CiRun ==
    /\ ciPc = "run"
    /\ \/ /\ ciFailures' = <<>>
          /\ ciPrinted' = <<>>
          /\ ciExit' = 1
          /\ ciPc' = "Err"
       \/ \E failures \in {Failures(ciIn)} :
             /\ ciFailures' = failures
             /\ ciPrinted' = IF ciIn.json THEN print_json(failures)
                             ELSE print_human(failures)
             /\ ciExit' = IF failures = <<>> THEN 0 ELSE 1
             /\ ciPc' = "done"
    /\ UNCHANGED <<ciIn, batchVars, clVars, scanVars, gradeVars, deepVars>>

NextCi == CiRun

----------------------------------------------------------------------------
(* the sort and the subsumption walk of find_duplicate_blocks on a list of
   clusters *)

\* the start lines of the windows of n clusters in a file whose last window
\* starts at line last: no two windows of a file start on the same line
Starts(n, last) ==
    {p \in [1..n -> 0..last] :
        \A i, j \in 1..n : i # j => p[i] # p[j]}

\* a cluster of one window in file 0 and one in file 1, no blank line in
\* either window; file 1 is one line shorter than file 0
TwoFileCluster(s0, s1, tokens) ==
    [occurrences |-> <<<<0, s0, s0 + WINDOW_SIZE - 1>>,
                       <<1, s1, s1 + WINDOW_SIZE - 1>>>>,
     preview |-> <<>>,
     tokens_per_instance |-> tokens]

InitSubsume ==
    /\ stats = <<>>
    /\ normalized = <<>>
    /\ map = <<>>
    /\ \E n \in 0..MaxSubsumeClusters :
       \E p \in Starts(n, MaxStart) : \E q \in Starts(n, MaxStart - 1) :
       \E t \in [1..n -> 1..MaxTokenChoice] :
          clusters = [i \in 1..n |-> TwoFileCluster(p[i], q[i], t[i])]
    /\ kept = <<>>
    /\ near_dupes = <<>>
    /\ total_savings = 0
    /\ dPc = "subsume"
    /\ IdleSavings
    /\ IdleExtract
    /\ IdleSim

\* clusters.sort_by(..) and the walk that fills kept
SortAndSubsume ==
    /\ dPc = "subsume"
    /\ kept' = Subsume(SortClusters(clusters), <<>>)
    /\ dPc' = "done"
    /\ UNCHANGED <<stats, normalized, map, clusters, near_dupes,
                   total_savings, savingsVars, extractVars, simVars, clVars, scanVars,
                   gradeVars, cmdVars>>

NextSubsume == SortAndSubsume

----------------------------------------------------------------------------
(* the two sorts of deep::run: clusters.sort_by with the walk, and
   results.sort_by of find_near_duplicates *)

\* a cluster of a window that starts at line s of file 0 and of file 1, and
\* with a third occurrence further down in file 1
RankCluster(s, count, tokens) ==
    [occurrences |->
        SubSeq(<<<<0, s, s + WINDOW_SIZE - 1>>,
                 <<1, s, s + WINDOW_SIZE - 1>>,
                 <<1, s + MaxRankStart + WINDOW_SIZE,
                   s + MaxRankStart + 2 * WINDOW_SIZE - 1>>>>, 1, count),
     preview |-> <<>>,
     tokens_per_instance |-> tokens]

\* SelectSeq without the LAMBDA: the entries of s that are not <<>>
RECURSIVE Present(_)
Present(s) ==
    IF s = <<>> THEN <<>>
    ELSE (IF Head(s) = <<>> THEN <<>> ELSE <<Head(s)>>) \o Present(Tail(s))

\* for every start line no cluster, or one of 2 or 3 occurrences; clusters
\* pushed by start line
RankClusterLists ==
    {Present([k \in 1..(MaxRankStart + 1) |->
                IF d[k].count = 0 THEN <<>>
                ELSE RankCluster(k - 1, d[k].count, d[k].tokens)]) :
        d \in [1..(MaxRankStart + 1) ->
                 [count : {0, 2, 3}, tokens : PreviewTokenCounts]]}

\* the pairs of find_near_duplicates in the order of its three loops: file,
\* first function, second function
DiscoveryOrder == <<<<0, 1, 2>>, <<0, 1, 3>>, <<0, 2, 3>>, <<1, 1, 2>>>>

\* results before the sort: for every pair no entry or one of savings
\* MinSavings..MaxRankSavings, pushed in discovery order; function i is
\* named f<i> and stands on line i
RankResults ==
    {Present([k \in 1..Len(DiscoveryOrder) |->
                IF sv[k] = 0 THEN <<>>
                ELSE [file_idx |-> DiscoveryOrder[k][1],
                      fn_a |-> <<<<"f", DiscoveryOrder[k][2]>>,
                                 DiscoveryOrder[k][2]>>,
                      fn_b |-> <<<<"f", DiscoveryOrder[k][3]>>,
                                 DiscoveryOrder[k][3]>>,
                      savings |-> sv[k]]]) :
        sv \in [1..Len(DiscoveryOrder) ->
                  {0} \cup (MinSavings..MaxRankSavings)]}

InitRank ==
    /\ stats = <<>>
    /\ normalized = <<>>
    /\ map = <<>>
    /\ clusters \in RankClusterLists
    /\ kept = <<>>
    /\ near_dupes = <<>>
    /\ total_savings = 0
    /\ dPc = "rank"
    /\ IdleSavings
    /\ IdleExtract
    /\ IdleSim

\* clusters.sort_by(..) and the walk that fills kept
RankClusters ==
    /\ dPc = "rank"
    /\ kept' = Subsume(SortClusters(clusters), <<>>)
    /\ dPc' = "ranknear"
    /\ UNCHANGED <<stats, normalized, map, clusters, near_dupes,
                   total_savings, savingsVars, extractVars, simVars, clVars, scanVars,
                   gradeVars, cmdVars>>

\* results.sort_by(..) of find_near_duplicates
RankNear ==
    /\ dPc = "ranknear"
    /\ \E results \in RankResults : near_dupes' = SortBySavings(results)
    /\ dPc' = "done"
    /\ UNCHANGED <<stats, normalized, map, clusters, kept, total_savings,
                   savingsVars, extractVars, simVars, clVars, scanVars, gradeVars,
                   cmdVars>>

NextRank == RankClusters \/ RankNear

----------------------------------------------------------------------------
(* batch::run (batch.rs) *)

BatchPaths == {"a.rs", "b.rs", "c.rs"}

\* the texts of files: the text of a file at the scan is its path, "new" is
\* the text of a rewrite, "" is what a failed write may leave
RewriteTexts == {"new"}

\* stats.files of the scan: distinct paths, the text and the token count of
\* each
BatchStats ==
    {fs \in SeqsUpTo([path : BatchPaths, tokens : 0..MaxBatchTokens],
                     MaxBatchFiles) :
        \A i, j \in 1..Len(fs) : i # j => fs[i].path # fs[j].path}

InitBatch ==
    /\ bArgs \in [n : 0..(MaxBatchFiles + 1), validate : BOOLEAN,
                  auto : BOOLEAN]
    /\ bFiles \in BatchStats
    /\ disk = [p \in BatchPaths |-> p]
    /\ bI = 0
    /\ rewritten = 0
    /\ skipped = 0
    /\ failed = 0
    /\ total_saved = 0
    /\ bLog = <<>>
    /\ bPc = "start"

IdleBatch ==
    /\ bArgs = <<>>
    /\ bFiles = <<>>
    /\ disk = <<>>
    /\ bI = 0
    /\ rewritten = 0
    /\ skipped = 0
    /\ failed = 0
    /\ total_saved = 0
    /\ bLog = <<>>
    /\ bPc = "idle"

IdleCmd == IdleCi /\ IdleBatch

\* stats.files.sort_by(|a, b| b.tokens.cmp(&a.tokens)): stable, tokens
\* descending
RECURSIVE InsertByTokens(_, _)
InsertByTokens(sorted, f) ==
    IF sorted = <<>> THEN <<f>>
    ELSE IF Head(sorted).tokens >= f.tokens
         THEN <<Head(sorted)>> \o InsertByTokens(Tail(sorted), f)
         ELSE <<f>> \o sorted

RECURSIVE SortByTokens(_)
SortByTokens(fs) ==
    IF fs = <<>> THEN <<>>
    ELSE InsertByTokens(SortByTokens(SubSeq(fs, 1, Len(fs) - 1)),
                        fs[Len(fs)])

\* n.min(stats.files.len())
Count == Min(bArgs.n, Len(bFiles))

\* tokens::scan_project()?, the sort; an error of the scan ends run
BatchStart ==
    /\ bPc = "start"
    /\ \/ bPc' = "Err" /\ bFiles' = bFiles
       \/ bPc' = "loop" /\ bFiles' = SortByTokens(bFiles)
    /\ UNCHANGED <<bArgs, disk, bI, rewritten, skipped, failed, total_saved,
                   bLog, ciVars, clVars, scanVars, gradeVars, deepVars>>

\* RewriteResult of rewrite_file on f: the text on disk, a rewrite, the token
\* counts of both
RewriteResults(f) ==
    [original : {disk[f.path]}, rewritten : RewriteTexts,
     tokens_before : {f.tokens}, tokens_after : 0..MaxBatchTokens]

\* RewriteResult::saved
saved(result) == result.tokens_before - result.tokens_after

RollbackTextRewritten(result) == result.rewritten

\* std::fs::write(&f.path, &result.original)
RollbackText(result) == result.original

\* what a std::fs::write that fails may leave of the file
AfterFailedWrite(path, text) == {disk[path], text, ""}

\* one line of the report of a file
Line(f, outcome, result) ==
    [path |-> f.path, outcome |-> outcome, saved |-> saved(result)]

\* one iteration of the loop over the first count files
BatchFile ==
    /\ bPc = "loop"
    /\ bI < Count
    /\ LET f == bFiles[bI + 1] IN
       \/ \* rewrite_file fails
          /\ failed' = failed + 1
          /\ bLog' = Append(bLog, [path |-> f.path, outcome |-> "Error",
                                   saved |-> 0])
          /\ bI' = bI + 1
          /\ UNCHANGED <<disk, rewritten, skipped, total_saved, bPc>>
       \/ \E result \in RewriteResults(f) :
             IF saved(result) <= 0
             THEN /\ skipped' = skipped + 1
                  /\ bLog' = Append(bLog, Line(f, "No improvement", result))
                  /\ bI' = bI + 1
                  /\ UNCHANGED <<disk, rewritten, failed, total_saved, bPc>>
             ELSE
               \/ \* ask_accept()? fails
                  /\ ~bArgs.auto
                  /\ bPc' = "Err"
                  /\ UNCHANGED <<disk, bI, rewritten, skipped, failed,
                                 total_saved, bLog>>
               \/ \* the answer is not y
                  /\ ~bArgs.auto
                  /\ skipped' = skipped + 1
                  /\ bLog' = Append(bLog, Line(f, "Skipped.", result))
                  /\ bI' = bI + 1
                  /\ UNCHANGED <<disk, rewritten, failed, total_saved, bPc>>
               \/ \* accepted, the write fails
                  /\ \E left \in AfterFailedWrite(f.path, result.rewritten) :
                        disk' = [disk EXCEPT ![f.path] = left]
                  /\ bPc' = "Err"
                  /\ UNCHANGED <<bI, rewritten, skipped, failed, total_saved,
                                 bLog>>
               \/ \* accepted and written, no validation
                  /\ ~bArgs.validate
                  /\ disk' = [disk EXCEPT ![f.path] = result.rewritten]
                  /\ rewritten' = rewritten + 1
                  /\ total_saved' = total_saved + saved(result)
                  /\ bLog' = Append(bLog, Line(f, "Applied.", result))
                  /\ bI' = bI + 1
                  /\ UNCHANGED <<skipped, failed, bPc>>
               \/ \* accepted and written, run_validation is Ok
                  /\ bArgs.validate
                  /\ disk' = [disk EXCEPT ![f.path] = result.rewritten]
                  /\ rewritten' = rewritten + 1
                  /\ total_saved' = total_saved + saved(result)
                  /\ bLog' = Append(bLog, Line(f, "passed", result))
                  /\ bI' = bI + 1
                  /\ UNCHANGED <<skipped, failed, bPc>>
               \/ \* run_validation is Err, the file is written back
                  /\ bArgs.validate
                  /\ disk' = [disk EXCEPT ![f.path] = RollbackText(result)]
                  /\ failed' = failed + 1
                  /\ bLog' = Append(bLog, Line(f, "Rolling back...", result))
                  /\ bI' = bI + 1
                  /\ UNCHANGED <<rewritten, skipped, total_saved, bPc>>
               \/ \* run_validation is Err, the write back fails
                  /\ bArgs.validate
                  /\ \E left \in AfterFailedWrite(f.path,
                                                  RollbackText(result)) :
                        disk' = [disk EXCEPT ![f.path] = left]
                  /\ bLog' = Append(bLog, Line(f, "Rolling back...", result))
                  /\ bPc' = "Err"
                  /\ UNCHANGED <<bI, rewritten, skipped, failed, total_saved>>
    /\ UNCHANGED <<bArgs, bFiles, ciVars, clVars, scanVars, gradeVars,
                   deepVars>>

\* the summary and Ok(())
BatchFinish ==
    /\ bPc = "loop"
    /\ bI = Count
    /\ bPc' = "done"
    /\ UNCHANGED <<bArgs, bFiles, disk, bI, rewritten, skipped, failed,
                   total_saved, bLog, ciVars, clVars, scanVars, gradeVars,
                   deepVars>>

NextBatch == BatchStart \/ BatchFile \/ BatchFinish

----------------------------------------------------------------------------
(* Specifications *)

LinesInit ==
    InitLines /\ IdleScan /\ IdleGrade /\ IdleDeep /\ IdleCmd

ScanInit ==
    IdleLines /\ InitScan /\ IdleGrade /\ IdleDeep /\ IdleCmd

GradeInit ==
    IdleLines /\ IdleScan /\ InitGrade /\ IdleDeep /\ IdleCmd

DeepInit ==
    IdleLines /\ IdleScan /\ IdleGrade /\ InitDeep /\ IdleCmd

\* the line classifier on every text, and the scanner that calls it
TokensInit == LinesInit \/ ScanInit

NextTokens == NextLines \/ NextScan

SpecLines == LinesInit /\ [][NextLines]_vars

SpecScan == ScanInit /\ [][NextScan]_vars

SpecGrade == GradeInit /\ [][NextGrade]_vars

SpecTokens == TokensInit /\ [][NextTokens]_vars

SpecDeep == DeepInit /\ [][NextDeep]_vars

\* estimate_savings on every cluster
SavingsInit ==
    IdleLines /\ IdleScan /\ IdleGrade /\ IdleRun /\ InitSavings /\ IdleExtract
    /\ IdleSim /\ IdleCmd

SpecSavings == SavingsInit /\ [][NextSavings]_vars

\* deep::run on files with functions
NearInit ==
    IdleLines /\ IdleScan /\ IdleGrade /\ InitNear /\ IdleCmd

SpecNear == NearInit /\ [][NextDeep]_vars

\* deep::run on a block that two files share
BlockInit ==
    IdleLines /\ IdleScan /\ IdleGrade /\ InitBlock /\ IdleCmd

SpecBlock == BlockInit /\ [][NextDeep]_vars

\* extract_functions on its own
ExtractInit ==
    IdleLines /\ IdleScan /\ IdleGrade /\ IdleRun /\ IdleSavings /\ InitExtract
    /\ IdleSim /\ IdleCmd

SpecExtract == ExtractInit /\ [][NextExtract]_vars

\* ci::run
CiInit ==
    IdleLines /\ IdleScan /\ IdleGrade /\ IdleDeep /\ InitCi /\ IdleBatch

SpecCi == CiInit /\ [][NextCi]_vars

\* the subsumption walk on lists of clusters
SubsumeInit ==
    IdleLines /\ IdleScan /\ IdleGrade /\ InitSubsume /\ IdleCmd

SpecSubsume == SubsumeInit /\ [][NextSubsume]_vars

\* the two sorts of deep::run
RankInit ==
    IdleLines /\ IdleScan /\ IdleGrade /\ InitRank /\ IdleCmd

SpecRank == RankInit /\ [][NextRank]_vars

\* extract_functions iteration by iteration; the loop runs on while it can
ExtractLoopInit ==
    IdleLines /\ IdleScan /\ IdleGrade /\ IdleRun /\ IdleSavings
    /\ InitExtractLoop /\ IdleSim /\ IdleCmd

SpecExtractLoop ==
    ExtractLoopInit /\ [][NextExtractLoop]_vars /\ WF_vars(NextExtractLoop)

\* string_similarity on its own
SimInit ==
    IdleLines /\ IdleScan /\ IdleGrade /\ IdleRun /\ IdleSavings
    /\ IdleExtract /\ InitSim /\ IdleCmd

SpecSim == SimInit /\ [][NextSim]_vars

\* batch::run
BatchInit ==
    IdleLines /\ IdleScan /\ IdleGrade /\ IdleDeep /\ IdleCi /\ InitBatch

SpecBatch == BatchInit /\ [][NextBatch]_vars

\* deep::run on files of function heads and braces
BraceInit ==
    IdleLines /\ IdleScan /\ IdleGrade /\ InitBrace /\ IdleCmd

SpecBrace == BraceInit /\ [][NextDeep]_vars

----------------------------------------------------------------------------
(* Claims about tokens.rs and ci.rs *)

\* the number of lines of a text: one per "\n", and one more for a last line
\* that no "\n" ends
NumLines(text) ==
    Cardinality({i \in 1..Len(text) : text[i] = "\n"})
    + (IF text # <<>> /\ text[Len(text)] # "\n" THEN 1 ELSE 0)

\* C1: the line classifier counts every line in exactly one of code, comment
\* and blank, so the three counts sum to the number of lines of the text, and
\* after any scan code_lines + comment_lines + blank_lines = total_lines.
C1_LineClassesPartition ==
    /\ clPc # "idle" => code + comments + blanks = lineNo
    /\ clPc = "returned" => code + comments + blanks = NumLines(content)
    /\ scanResult # "idle" =>
          code_lines + comment_lines + blank_lines = total_lines

C1_Witness ==
    clPc = "returned" /\ code >= 1 /\ comments >= 1 /\ blanks >= 1

\* C2: a failed read is not fatal; the file is absent from files and from
\* every counter; the totals are the sums over the returned FileStats, which
\* stand in walker order.
C2_ReadFailureSkipsFile ==
    LET yielded == SelectSeq(SubSeq(walk, 1, pos),
                             LAMBDA e : e.path \notin Range(warnings)
                                        /\ Extension(e.path) = <<RsExt>>
                                        /\ TargetName \notin Range(e.path))
    IN
    /\ scanResult = "Err" => pos = 0 /\ warnings = <<>>
    /\ scanResult = "running" /\ pos = Len(walk) => ENABLED ScanReturn
    /\ \A i \in 1..Len(warnings) : \A j \in 1..Len(files) :
          files[j].path # Display(warnings[i])
    /\ [j \in 1..Len(files) |-> files[j].path]
          = [j \in 1..Len(yielded) |-> Display(yielded[j].path)]
    /\ total_lines = SumSeq([j \in 1..Len(files) |-> files[j].lines])
    /\ total_tokens = SumSeq([j \in 1..Len(files) |-> files[j].tokens])
    /\ \A j \in 1..Len(files) : files[j].lines = NumLines(files[j].content)

C2_Witness ==
    scanResult = "Ok" /\ Len(warnings) >= 1 /\ Len(files) >= 2
    /\ total_tokens >= 2

\* C3: every path the walker yields (scanned into files, or warned about)
\* has the extension rs and no component named target.
C3_RsOutsideTarget ==
    LET Ok(p) ==
            LET name == p[Len(p)] IN
            /\ Len(name) >= 3
            /\ name[Len(name)] = "rs"
            /\ name[Len(name) - 1] = "."
            /\ \A k \in 1..Len(p) : p[k] # <<"target">>
    IN /\ \A i \in 1..Len(files) : Ok(files[i].path)
       /\ \A i \in 1..Len(warnings) : Ok(warnings[i])

C3_Witness ==
    /\ scanResult = "Ok"
    /\ \E i \in 1..Len(walk) :
          /\ Len(walk[i].path) = 4
          /\ walk[i].path[3] = <<"target">>
          /\ ~walk[i].isDir
    /\ \E j \in 1..Len(files) : files[j].path = << <<"target", ".", "rs">> >>

\* C4: the grade bands are <= 5 A+/brightgreen, <= 7 A/green, <= 9 B/blue,
\* <= 12 C/orange, else D/red, each upper boundary inclusive; ratio 0 is A+.
C4_GradeBands ==
    gPc = "graded" =>
      \A i \in 1..2 :
        LET n == gRatio[i][1]
            d == gRatio[i][2]
            got == <<gGrade[i][3], gGrade[i][2]>>
        IN /\ d > 0
           /\ n <= 5 * d => got = <<"A+", "brightgreen">>
           /\ 5 * d < n /\ n <= 7 * d => got = <<"A", "green">>
           /\ 7 * d < n /\ n <= 9 * d => got = <<"B", "blue">>
           /\ 9 * d < n /\ n <= 12 * d => got = <<"C", "orange">>
           /\ 12 * d < n => got = <<"D", "red">>
           /\ gIn[i].lines = 0 => got[1] = "A+"

C4_Witness ==
    /\ gPc = "graded"
    /\ gIn[1] = [tokens |-> 5, lines |-> 1]
    /\ gIn[2] = [tokens |-> 24, lines |-> 2]
    /\ gGrade[1][3] = "A+"
    /\ gGrade[2][3] = "C"

GradeLetters == {"A+", "A", "B", "C", "D"}

UrlSafe(letter) == IF letter = "A+" THEN "A%2B" ELSE letter

\* C5 as stated: the components come in the order (letter, colour,
\* url_letter).
C5_LetterColourUrl ==
    gPc = "graded" =>
      \A i \in 1..2 :
        /\ gGrade[i][1] \in GradeLetters
        /\ gGrade[i][3] = UrlSafe(gGrade[i][1])

\* C5 amended: the components come in the order (url_letter, colour, letter):
\* the third is the display letter, the second the colour, the first the
\* URL-safe encoding of the letter (A%2B for A+, the letter itself otherwise).
C5_UrlColourLetter ==
    gPc = "graded" =>
      \A i \in 1..2 :
        /\ gGrade[i][3] \in GradeLetters
        /\ gGrade[i][2] \in {"brightgreen", "green", "blue", "orange", "red"}
        /\ gGrade[i][1] = UrlSafe(gGrade[i][3])

C5_Witness ==
    gPc = "graded" /\ gGrade[1][3] = "A+" /\ gGrade[1][1] = "A%2B"
    /\ gGrade[2][3] = "D"

\* C6: grading is monotone: r1 <= r2 implies rank(letter(r1)) >=
\* rank(letter(r2)), and every letter returned has a rank in 1..5.
C6_GradeMonotone ==
    gPc = "graded" =>
      /\ \A i \in 1..2 : grade_rank(gGrade[i][3]) \in 1..5
      /\ gRatio[1][1] * gRatio[2][2] <= gRatio[2][1] * gRatio[1][2] =>
            grade_rank(gGrade[1][3]) >= grade_rank(gGrade[2][3])

C6_Witness ==
    /\ gPc = "graded"
    /\ gRatio[1][1] * gRatio[2][2] < gRatio[2][1] * gRatio[1][2]
    /\ grade_rank(gGrade[1][3]) = 3
    /\ grade_rank(gGrade[2][3]) = 2

\* C7: ratio and pct return 0 when the divisor is 0, tokens / lines and
\* 100 * part / total otherwise, and never divide by zero.
C7_ZeroDivisorYieldsZero ==
    /\ gPc \in {"ratio", "graded"} =>
         \A i \in 1..2 :
           /\ gRatio[i][2] # 0
           /\ gIn[i].lines = 0 => gRatio[i][1] = 0
           /\ gIn[i].lines > 0 =>
                 gRatio[i][1] * gIn[i].lines = gIn[i].tokens * gRatio[i][2]
    /\ gPc = "pct" =>
         \A i \in 1..2 :
           /\ gPct[i][2] # 0
           /\ gIn[i].lines = 0 => gPct[i][1] = 0
           /\ gIn[i].lines > 0 =>
                 gPct[i][1] * gIn[i].lines = 100 * gIn[i].tokens * gPct[i][2]

C7_Witness ==
    /\ gPc = "ratio"
    /\ gIn[1].lines = 0 /\ gIn[1].tokens > 0
    /\ gIn[2].lines > 0 /\ gIn[2].tokens > 0

\* C8: for every FileStats of a scan, ratio = 0 iff lines = 0, and
\* ratio = tokens / lines when lines > 0.
C8_RatioZeroIffNoLines ==
    \A i \in 1..Len(files) :
      LET f == files[i] IN
      /\ f.ratio[2] # 0
      /\ f.ratio[1] = 0 <=> f.lines = 0
      /\ f.lines > 0 => f.ratio[1] * f.lines = f.tokens * f.ratio[2]

C8_Witness ==
    /\ \E i \in 1..Len(files) : files[i].lines = 0 /\ files[i].ratio[1] = 0
    /\ \E i \in 1..Len(files) : files[i].lines > 1 /\ files[i].tokens > 1

----------------------------------------------------------------------------
(* Claims about deep.rs *)

\* the windows among ws whose text is the text of the window w
SameText(ws, w) == {i \in 1..Len(ws) : ws[i].combined = w.combined}

\* the text of w comes two or more times among ws, and in the file of w only
RepeatedInOneFileOnly(ws, w) ==
    /\ Cardinality(SameText(ws, w)) >= 2
    /\ \A i \in SameText(ws, w) : ws[i].fp.file_idx = w.fp.file_idx

\* the cluster holds an occurrence that starts where the window w starts
StartsAt(cluster, w) ==
    \E i \in 1..Len(cluster.occurrences) :
       /\ cluster.occurrences[i][1] = w.fp.file_idx
       /\ cluster.occurrences[i][2] = w.fp.start_line

OccurrenceFiles(cluster) ==
    {cluster.occurrences[i][1] : i \in 1..Len(cluster.occurrences)}

\* C9: every cluster find_duplicate_blocks returns has two or more
\* occurrences, in two or more distinct files; and no returned cluster holds
\* an occurrence of a window whose text is repeated inside one file only.
C9_ClustersSpanTwoFiles ==
    dPc = "done" =>
       /\ \A x \in 1..Len(kept) :
             /\ Len(kept[x].occurrences) >= 2
             /\ Cardinality(OccurrenceFiles(kept[x])) >= 2
       /\ \A ws \in {AllWindows(normalized)} :
             \A i \in 1..Len(ws) :
                RepeatedInOneFileOnly(ws, ws[i]) =>
                   \A x \in 1..Len(kept) : ~StartsAt(kept[x], ws[i])

\* a project in which one text is repeated inside the first file only while
\* another text of that file comes in the second file too: the second text is
\* returned as a cluster, the first is not
C9_Witness ==
    /\ dPc = "done"
    /\ Len(kept) = 1
    /\ Cardinality(OccurrenceFiles(kept[1])) = 2
    /\ \E ws \in {AllWindows(normalized)} :
          \E i \in 1..Len(ws) : RepeatedInOneFileOnly(ws, ws[i])

\* the non-blank normalized lines, WINDOW_SIZE at most, from the 0-based
\* line start of the file on
WindowTextAt(file_idx, start) ==
    LET lines == normalized[file_idx + 1]
        idx == SelectSeq([k \in 1..Len(lines) |-> k],
                         LAMBDA k : k > start /\ lines[k] # <<>>)
    IN [j \in 1..Min(WINDOW_SIZE, Len(idx)) |-> lines[idx[j]]]

\* the fingerprints of the bucket belong to windows of two or more texts
MixedBucket(fps) ==
    \E i, j \in 1..Len(fps) :
       WindowTextAt(fps[i].file_idx, fps[i].start_line)
          # WindowTextAt(fps[j].file_idx, fps[j].start_line)

\* C10: in every cluster find_duplicate_blocks builds, and so in every one
\* it returns, all occurrences have the same normalized window text of
\* WINDOW_SIZE lines, whatever hash_str does: no cluster is built from a
\* bucket in which two texts collide.
C10_ClusterTextsIdentical ==
    dPc = "done" =>
       /\ \A x \in 1..Len(clusters) :
             \A i, j \in 1..Len(clusters[x].occurrences) :
                LET a == clusters[x].occurrences[i]
                    b == clusters[x].occurrences[j]
                IN /\ WindowTextAt(a[1], a[2]) = WindowTextAt(b[1], b[2])
                   /\ Len(WindowTextAt(a[1], a[2])) = WINDOW_SIZE
       /\ \A x \in 1..Len(kept) : \E y \in 1..Len(clusters) :
             kept[x] = clusters[y]
       /\ \A key \in DOMAIN map :
             MixedBucket(map[key]) =>
                \A x \in 1..Len(clusters) :
                   \A i \in 1..Len(map[key]) :
                      \A o \in 1..Len(clusters[x].occurrences) :
                         ~ /\ clusters[x].occurrences[o][1] = map[key][i].file_idx
                           /\ clusters[x].occurrences[o][2] = map[key][i].start_line

\* a cluster is returned while two different texts, one of each file, collide
\* in another bucket of the map
C10_Witness ==
    /\ dPc = "done"
    /\ Len(kept) >= 1
    /\ \E key \in DOMAIN map :
          /\ MixedBucket(map[key])
          /\ Cardinality(FileIndices(map[key])) >= 2

\* every window of WINDOW_SIZE consecutive non-blank normalized lines of the
\* project, trivial or not
RECURSIVE EveryWindowFrom(_, _)
EveryWindowFrom(norm, file_idx) ==
    IF file_idx >= Len(norm) THEN <<>>
    ELSE FileWindowsKeepTrivial(norm, file_idx)
         \o EveryWindowFrom(norm, file_idx + 1)

\* the text of w comes in two or more distinct files
InTwoFiles(ws, w) ==
    \E i, j \in SameText(ws, w) : ws[i].fp.file_idx # ws[j].fp.file_idx

WindowChars(file_idx, start) ==
    \* characters of the lines, and one "\n" between two lines
    LET text == WindowTextAt(file_idx, start)
    IN SumSeq([k \in 1..Len(text) |-> Len(text[k])]) + (Len(text) - 1)

\* C12 as claimed: no cluster is built from a window whose text, the three
\* normalized lines joined by "\n", has fewer than 20 characters, multi-byte
\* characters included.
C12_ShortWindowsFormNoCluster ==
    dPc = "done" =>
       \A x \in 1..Len(clusters) :
          \A i \in 1..Len(clusters[x].occurrences) :
             WindowChars(clusters[x].occurrences[i][1],
                         clusters[x].occurrences[i][2]) >= TrivialLen

\* the bytes of the window text at an occurrence
WindowBytes(file_idx, start) ==
    LET text == WindowTextAt(file_idx, start)
        LineBytes(l) == SumSeq([c \in 1..Len(l) |-> Utf8Len(l[c])])
    IN SumSeq([k \in 1..Len(text) |-> LineBytes(text[k])]) + (Len(text) - 1)

\* C12 as amended: no cluster is built from a window whose text has fewer
\* than 20 bytes in UTF-8.
C12_ShortByteWindowsFormNoCluster ==
    dPc = "done" =>
       \A x \in 1..Len(clusters) :
          \A i \in 1..Len(clusters[x].occurrences) :
             WindowBytes(clusters[x].occurrences[i][1],
                         clusters[x].occurrences[i][2]) >= TrivialLen

\* two files share a window of fewer than 20 bytes, which is in no cluster,
\* and a window of fewer than 20 characters but 20 bytes, which is in one
C12_Witness ==
    /\ dPc = "done"
    /\ \E x \in 1..Len(kept) :
          WindowChars(kept[x].occurrences[1][1], kept[x].occurrences[1][2])
             < TrivialLen
    /\ \E ws \in {EveryWindowFrom(normalized, 0)} :
          \E i \in 1..Len(ws) :
             /\ StrLen(ws[i].combined) < TrivialLen
             /\ InTwoFiles(ws, ws[i])

\* every occurrence of the cluster a lies inside an occurrence of the cluster
\* b: the same file, and the start of a's within b's start ..= end
LiesInside(a, b) ==
    \A i \in 1..Len(a.occurrences) :
       \E j \in 1..Len(b.occurrences) :
          /\ a.occurrences[i][1] = b.occurrences[j][1]
          /\ a.occurrences[i][2] >= b.occurrences[j][2]
          /\ a.occurrences[i][2] <= b.occurrences[j][3]

\* C13: after subsumption no kept cluster lies inside another kept cluster,
\* whichever of the two the sorted walk visited first.
C13_NoKeptClusterInsideAnother ==
    dPc = "done" =>
       \A x, y \in 1..Len(kept) : x # y => ~LiesInside(kept[x], kept[y])

\* no two texts of the project have the same hash value
NoCollision == \A key \in DOMAIN map : ~MixedBucket(map[key])

\* C14: when two files share a block of six consecutive non-blank lines,
\* every window of the block is hashed and nothing else is duplicated, the
\* result holds exactly one cluster for the block.
C14_OneClusterPerBlock ==
    (/\ dPc = "done"
     /\ NoCollision
     /\ Len(AllWindows(normalized)) = 2 * (BlockLines - WINDOW_SIZE + 1))
       => Len(kept) = 1

\* what a second run on the same ProjectStats returns when map.values()
\* yields the buckets in the order p: hash_str and the tokenizer are
\* functions, so the second run builds the same clusters and only the order
\* in which they are pushed can differ
RerunKept(p) ==
    Subsume(SortClusters([i \in 1..Len(clusters) |-> clusters[p[i]]]), <<>>)

\* C15: a second run on the same ProjectStats returns the same clusters in
\* the same order, whatever the iteration order of the hash map.
C15_SameResultOnRerun ==
    dPc = "done" =>
       \A p \in Orderings(1..Len(clusters)) :
          /\ RerunKept(p) = kept
          /\ TotalSavings(RerunKept(p), near_dupes) = total_savings

\* C16: estimate_savings is floor(tokens_per_instance * (occurrences - 1) *
\* 80 / 100) for two or more occurrences and 0 for at most one; 10 tokens
\* and 3 occurrences give 16; for two occurrences it is floor(0.8 * tokens).
C16_SavingsFormula ==
    ePc = "done" =>
       LET n == Len(eCluster.occurrences)
           t == eCluster.tokens_per_instance
       IN /\ n <= 1 => eOut = 0
          /\ n >= 2 => /\ eOut * 100 <= t * (n - 1) * 80
                       /\ t * (n - 1) * 80 < (eOut + 1) * 100
          /\ n = 2 => /\ eOut * 10 <= 8 * t
                      /\ 8 * t < (eOut + 1) * 10
          /\ (t = 10 /\ n = 3) => eOut = 16

\* the call of the repository's test: 10 tokens, 3 occurrences
C16_Witness ==
    /\ ePc = "done"
    /\ eCluster.tokens_per_instance = 10
    /\ Len(eCluster.occurrences) = 3
    /\ eOut = 16

\* the source lines of the first occurrence of a cluster, from its start line
\* to its end line
FirstSpan(cluster) ==
    LET o == cluster.occurrences[1]
    IN SubSeq(stats[o[1] + 1], o[2] + 1, o[3] + 1)

NonBlankLines(lines) == SelectSeq(lines, LAMBDA l : Trim(l) # <<>>)

----------------------------------------------------------------------------
\* C18: for every DeepResult, total_savings is the sum of the estimated
\* savings of exactly the kept clusters plus the sum of the savings of
\* exactly the returned near-duplicates; what subsumption or the 5-token
\* threshold dropped adds nothing.

\* the number of pairs of functions that reached the savings threshold
CandidateCount(p) ==
    LET candAll == CandidatesAll(ExtractAll(p))
    IN SumSeq([f \in 1..Len(candAll) |-> Len(candAll[f])])

----------------------------------------------------------------------------
\* C19: deep::run returns a DeepResult for every ProjectStats and never
\* panics (no index out of range, no underflow), also on files that are
\* empty, blank, of fewer than three non-blank lines or of braces that do
\* not balance; for a ProjectStats of zero files it returns no clusters, no
\* near-duplicates and total_savings = 0.

NonBlankCount(file) == Len(NonBlankLines(file))

C19_RunAlwaysReturns ==
    /\ dPc \in {"run", "done"}
    /\ (dPc = "done" /\ stats = <<>>) =>
          /\ kept = <<>>
          /\ near_dupes = <<>>
          /\ total_savings = 0

\* a result for two files: one of fewer than three non-blank lines with a
\* blank line, one that opens a brace it never closes and ends in a function
\* head that no brace follows
C19_Witness ==
    /\ dPc = "done"
    /\ Len(stats) = 2
    /\ \E f, g \in 1..2 :
          /\ f # g
          /\ NonBlankCount(stats[f]) < WINDOW_SIZE
          /\ LineBlank \in Range(stats[f])
          /\ Len(stats[g]) >= WINDOW_SIZE
          /\ LineFnOpen \in Range(stats[g])
          /\ WClose \notin Range(stats[g])
          /\ stats[g][Len(stats[g])] = LineFnBare

----------------------------------------------------------------------------
\* C20: the near-duplicates that find_near_duplicates returns

\* the functions fns of the file of a near-duplicate with the name and the
\* line of one of its sides
SideFns(fns, side) ==
    {fn \in Range(fns) : fn.name = side[1] /\ fn.line = side[2]}

\* the savings that some token counts of the two bodies give
SavingsOfSomeCounts ==
    {(Min(ta, tb) * 60) \div 100 : ta, tb \in {0} \cup BodyTokenCounts}

\* what C20 says of one near-duplicate, the length of a body measured by
\* BodyLen
NearDuplicateSound(nd, fnsAll, BodyLen(_)) ==
    /\ nd.file_idx + 1 \in 1..Len(stats)
    /\ nd.fn_a[2] < nd.fn_b[2]
    /\ \E a \in SideFns(fnsAll[nd.file_idx + 1], nd.fn_a) :
       \E b \in SideFns(fnsAll[nd.file_idx + 1], nd.fn_b) :
       \E norm_a \in {normalize_line(a.body)} :
       \E norm_b \in {normalize_line(b.body)} :
       \E sim \in {string_similarity(norm_a, norm_b)} :
          /\ BodyLen(norm_a) >= MinBodyLen
          /\ BodyLen(norm_b) >= MinBodyLen
          /\ 3 * sim[2] < 4 * sim[1]
          /\ sim[1] < sim[2]
    /\ nd.savings \in SavingsOfSomeCounts
    /\ nd.savings >= MinSavings

----------------------------------------------------------------------------
\* C21: every FnInfo that extract_functions emits, for any text, has a body
\* with as many "{" as "}" and a non-empty name made of A-Z, a-z, 0-9 and _
\* only.

CountChar(text, c) == Len(SelectSeq(text, LAMBDA x : x = c))

\* the identifier characters among the characters of the texts
AsciiNameChars == (Alphanumeric \ {"é"}) \cup {"_"}

C21_BodiesBalancedNamesAscii ==
    xPc = "done" =>
       \A k \in 1..Len(xFns) :
          /\ CountChar(xFns[k].body, "{") = CountChar(xFns[k].body, "}")
          /\ xFns[k].name # <<>>
          /\ \A i \in 1..Len(xFns[k].name) : xFns[k].name[i] \in AsciiNameChars

----------------------------------------------------------------------------
\* C22: what extract_functions makes of "fn " in comments and strings

\* the trimmed header line of an emitted function, and the text in front of
\* its first "fn "
HeaderOf(fn) == Trim(xContent[fn.line + 1])

BeforeFn(fn) == SubSeq(HeaderOf(fn), 1, Find(HeaderOf(fn), FnSpace) - 1)

\* "fn " of the header lies in a line comment or behind an opening quote
InCommentOrString(fn) ==
    \/ SubSeq(HeaderOf(fn), 1, 2) = <<"/", "/">>
    \/ "\"" \in Range(BeforeFn(fn))

\* C22 as claimed: extract_functions emits no FnInfo for a "fn " that lies
\* inside a comment or a string literal, such as // pub fn foo() {.
C22_NoFnFromCommentOrString ==
    xPc = "done" =>
       \A k \in 1..Len(xFns) : ~InCommentOrString(xFns[k])

\* C22 as amended: extract_functions emits a FnInfo only for a line whose
\* first "fn " follows, on the trimmed line, nothing or a text that ends in
\* pub, async or unsafe or holds pub( ; a "fn " in a comment or a string
\* literal is extracted exactly when that text passes this test.
C22_OnlyAllowedPrefixes ==
    xPc = "done" =>
       \A k \in 1..Len(xFns) :
          /\ Find(HeaderOf(xFns[k]), FnSpace) # 0
          /\ LET before == TrimEnd(BeforeFn(xFns[k]))
                 Last(n) == IF Len(before) < n THEN <<>>
                            ELSE SubSeq(before, Len(before) - n + 1,
                                        Len(before))
             IN \/ BeforeFn(xFns[k]) = <<>>
                \/ Last(3) = <<"p", "u", "b">>
                \/ Last(5) = <<"a", "s", "y", "n", "c">>
                \/ Last(6) = <<"u", "n", "s", "a", "f", "e">>
                \/ \E i \in 1..(Len(before) - 3) :
                      SubSeq(before, i, i + 3) = <<"p", "u", "b", "(">>

\* a text whose "// fn" line and string literal are passed over and whose
\* last line, "// pub fn f3() {", is emitted as the only function
C22_Witness ==
    /\ xPc = "done"
    /\ Len(xFns) = 1
    /\ xFns[1].line = Len(xContent) - 1
    /\ xFns[1].name = <<"f", "3">>
    /\ InCommentOrString(xFns[1])
    /\ LineCommentFn \in Range(xContent)
    /\ LineStringFn \in Range(xContent)

----------------------------------------------------------------------------
\* C23: the verdict of the CI gate

\* the thresholds that were supplied and are violated
TokensOverBudget ==
    ciIn.max_tokens # <<>> /\ ciIn.total_tokens > ciIn.max_tokens[1]

RatioOverLimit ==
    /\ ciIn.max_tl # <<>>
    /\ ciIn.total_lines > 0
    /\ ciIn.total_tokens * ciIn.max_tl[1][2]
         > ciIn.max_tl[1][1] * ciIn.total_lines

GradeUnderMinimum ==
    /\ ciIn.min_grade # <<>>
    /\ grade_rank(efficiency_grade(ratio(ciIn.total_tokens,
                                         ciIn.total_lines))[3])
         < grade_rank(ciIn.min_grade[1])

\* a verdict was printed and it is pass = false
PassIsFalse == ciPrinted # <<>> /\ ~ciPrinted[1].pass

\* the failures list is what the violated thresholds make it, and the
\* printed output is made from it
FailuresFollowThresholds ==
    /\ ("token budget exceeded" \in Range(ciFailures)) <=> TokensOverBudget
    /\ ("T/L ratio too high" \in Range(ciFailures)) <=> RatioOverLimit
    /\ ("grade too low" \in Range(ciFailures)) <=> GradeUnderMinimum
    /\ (ciFailures # <<>>)
         <=> (TokensOverBudget \/ RatioOverLimit \/ GradeUnderMinimum)
    /\ ciPrinted # <<>> =>
          /\ ciPrinted[1].failures = ciFailures
          /\ ciPrinted[1].pass <=> (ciFailures = <<>>)
          /\ ciPrinted[1].format = (IF ciIn.json THEN "json" ELSE "human")

\* C23 as claimed: the CI gate exits non-zero if and only if pass = false,
\* pass being true iff the failures list is empty; the list is non-empty iff
\* a supplied threshold is violated; a threshold that is not supplied gives
\* no failure; the same list drives the JSON and the human output.
C23_ExitNonZeroIffPassFalse ==
    ciPc \in {"done", "Err"} =>
       /\ (ciExit # 0) <=> PassIsFalse
       /\ FailuresFollowThresholds

\* C23 as amended: when scan_project succeeds, all of the above; when it
\* fails, the gate exits non-zero and prints no verdict.
C23_ExitNonZeroIffPassFalseOrScanError ==
    /\ ciPc = "done" =>
          /\ ciPrinted # <<>>
          /\ (ciExit # 0) <=> PassIsFalse
          /\ FailuresFollowThresholds
    /\ ciPc = "Err" => (ciExit # 0 /\ ciPrinted = <<>> /\ ciFailures = <<>>)

\* a run with all three thresholds supplied, of which only the ratio is
\* violated: one failure, pass = false, exit status 1
C23_Witness ==
    /\ ciPc = "done"
    /\ ciIn.max_tokens # <<>> /\ ciIn.max_tl # <<>> /\ ciIn.min_grade # <<>>
    /\ ciFailures = <<"T/L ratio too high">>
    /\ PassIsFalse
    /\ ciExit = 1

\* the lines of the report with one of the outcomes
LinesWith(outcomes) ==
    {k \in 1..Len(bLog) : bLog[k].outcome \in outcomes}

RECURSIVE SavedOf(_)
SavedOf(ks) ==
    IF ks = {} THEN 0
    ELSE LET k == CHOOSE x \in ks : TRUE
         IN bLog[k].saved + SavedOf(ks \ {k})

\* C24: in a run of batch that met no I/O error, a file whose validation
\* failed holds the text it had at the scan and is counted as failed, its
\* savings are not added; a rewrite that saves nothing, a declined rewrite
\* and a failed rewrite leave the file as it was; a rewrite that passed is
\* counted as rewritten with its savings.
C24_FailedValidationRestoresFile ==
    bPc \in {"loop", "done"} =>
        /\ \A k \in LinesWith({"Rolling back...", "No improvement",
                               "Skipped.", "Error"}) :
              disk[bLog[k].path] = bLog[k].path
        /\ \A k \in 1..Len(bLog) :
              bLog[k].saved <= 0 => disk[bLog[k].path] = bLog[k].path
        /\ \A k \in LinesWith({"passed", "Applied."}) :
              disk[bLog[k].path] \in RewriteTexts
        /\ \A k \in (bI + 1)..Len(bFiles) :
              disk[bFiles[k].path] = bFiles[k].path
        /\ failed = Cardinality(LinesWith({"Rolling back...", "Error"}))
        /\ skipped = Cardinality(LinesWith({"No improvement", "Skipped."}))
        /\ rewritten = Cardinality(LinesWith({"passed", "Applied."}))
        /\ total_saved = SavedOf(LinesWith({"passed", "Applied."}))
        /\ bArgs.validate => LinesWith({"Applied."}) = {}
        /\ Len(bLog) = bI

C24_Witness ==
    /\ bPc = "done"
    /\ bArgs.validate
    /\ \E j, k \in 1..Len(bLog) :
          /\ bLog[j].outcome = "Rolling back..."
          /\ bLog[j].saved > 0
          /\ bLog[k].outcome = "passed"
          /\ total_saved = bLog[k].saved
          /\ failed = 1

\* every start line of c lies in a range of e in the same file
StartsInside(c, e) ==
    \A i \in 1..Len(c.occurrences) :
       \E j \in 1..Len(e.occurrences) :
          /\ c.occurrences[i][1] = e.occurrences[j][1]
          /\ e.occurrences[j][2] <= c.occurrences[i][2]
          /\ c.occurrences[i][2] <= e.occurrences[j][3]

\* the clusters of sorted at the indices of K, in order
RECURSIVE AtIndices(_, _, _)
AtIndices(sorted, K, k) ==
    IF k > Len(sorted) THEN <<>>
    ELSE (IF k \in K THEN <<sorted[k]>> ELSE <<>>)
         \o AtIndices(sorted, K, k + 1)

\* C25: a cluster of the sorted list is dropped iff one cluster kept before
\* it has every start line of the cluster inside one of its ranges in the
\* same file; kept is the list of the clusters not dropped, so the first
\* cluster is kept, and so is a cluster that only several kept clusters cover
\* together.
C25_DroppedIffOneKeptCovers ==
    dPc = "done" =>
        \A sorted \in {SortClusters(clusters)} :
           /\ \E K \in SUBSET (1..Len(sorted)) :
                 /\ \A k \in 1..Len(sorted) :
                       k \notin K <=>
                          \E x \in K : x < k /\ StartsInside(sorted[k],
                                                             sorted[x])
                 /\ kept = AtIndices(sorted, K, 1)
           /\ sorted # <<>> => kept # <<>> /\ kept[1] = sorted[1]

\* three clusters are kept, the third has one start inside the first and the
\* other inside the second
C25_Witness ==
    /\ dPc = "done"
    /\ Len(kept) = 3
    /\ ~StartsInside(kept[3], kept[1])
    /\ ~StartsInside(kept[3], kept[2])
    /\ \A i \in 1..Len(kept[3].occurrences) :
          \E x \in 1..2 :
             StartsInside([occurrences |-> <<kept[3].occurrences[i]>>],
                          kept[x])

\* the place of a near-duplicate in the loops of find_near_duplicates: file,
\* line of the first function, line of the second
DiscoveredBefore(a, b) ==
    \/ a.file_idx < b.file_idx
    \/ /\ a.file_idx = b.file_idx
       /\ \/ a.fn_a[2] < b.fn_a[2]
          \/ a.fn_a[2] = b.fn_a[2] /\ a.fn_b[2] < b.fn_b[2]

\* C27: in the returned clusters (occurrence count, estimated savings) never
\* increases from one cluster to the next, in lexicographic order; in the
\* returned near-duplicates savings never increases, and of two with equal
\* savings the one discovered first comes first.
C27_ResultsRanked ==
    dPc = "done" =>
        /\ \A k \in 1..(Len(kept) - 1) :
              \/ Len(kept[k].occurrences) > Len(kept[k + 1].occurrences)
              \/ /\ Len(kept[k].occurrences) = Len(kept[k + 1].occurrences)
                 /\ estimate_savings(kept[k]) >= estimate_savings(kept[k + 1])
        /\ \A k, l \in 1..Len(near_dupes) :
              k < l =>
                 \/ near_dupes[k].savings > near_dupes[l].savings
                 \/ /\ near_dupes[k].savings = near_dupes[l].savings
                    /\ DiscoveredBefore(near_dupes[k], near_dupes[l])

\* a cluster of more occurrences and less savings in front of another one,
\* and three near-duplicates: one discovered last with the highest savings in
\* front, then two of equal savings
C27_Witness ==
    /\ dPc = "done"
    /\ Len(kept) >= 2
    /\ Len(kept[1].occurrences) > Len(kept[2].occurrences)
    /\ estimate_savings(kept[1]) < estimate_savings(kept[2])
    /\ Len(near_dupes) = 3
    /\ near_dupes[1].savings > near_dupes[2].savings
    /\ DiscoveredBefore(near_dupes[2], near_dupes[1])
    /\ near_dupes[2].savings = near_dupes[3].savings

\* the last line of an emitted function: its body is lines[line..=end]
\* joined by "\n"
LastLineOf(fn) == fn.line + CountChar(fn.body, "\n")

\* the functions emitted so far start on increasing lines, their line ranges
\* are disjoint and lie in front of the line index
EmittedInSourceOrder ==
    /\ \A k \in 1..Len(xFns) :
          /\ xFns[k].line <= LastLineOf(xFns[k])
          /\ LastLineOf(xFns[k]) < xI
    /\ \A k \in 1..(Len(xFns) - 1) :
          LastLineOf(xFns[k]) < xFns[k + 1].line

\* C28: the extractor terminates on every text: every iteration of its loop
\* moves the line index forward, and the loop returns; the emitted functions
\* start on strictly increasing lines and their line ranges are pairwise
\* disjoint, so no function is emitted from inside the range of another.
C28_ExtractorTerminatesRangesDisjoint ==
    /\ [][xPc = "loop" /\ xPc' = "loop" => xI' > xI]_vars
    /\ [](xPc \in {"loop", "returned"} => EmittedInSourceOrder)
    /\ <>(xPc = "returned")

\* a returned function whose range holds the header of another function that
\* was not emitted
C28_Witness ==
    /\ xPc = "returned"
    /\ Len(xFns) = 1
    /\ xFns = extract_functions(xContent)
    /\ \E k \in (xFns[1].line + 1)..LastLineOf(xFns[1]) :
          xContent[k + 1] = LineHeadOpen

\* the line has nothing but whitespace
WhitespaceOnly(line) == \A i \in 1..Len(line) : line[i] \in {" ", "\n"}

\* the first two characters after the leading whitespace are / and *
OpensWithBlockComment(line) ==
    \E i \in 1..(Len(line) - 1) :
       /\ line[i] = "/"
       /\ line[i + 1] = "*"
       /\ \A j \in 1..(i - 1) : line[j] \in {" ", "\n"}

\* the line holds * followed by /
HoldsBlockCommentEnd(line) ==
    \E i \in 1..(Len(line) - 1) : line[i] = "*" /\ line[i + 1] = "/"

\* C29: the flag in_block_comment goes from clear to set only on a non-blank
\* line that starts (after its leading whitespace) with /* and holds no */,
\* and from set to clear only on a non-blank line that holds */; a
\* whitespace-only line counts as blank and leaves the flag as it is, and so
\* does a line that starts with code and opens a block comment later; no
\* other step touches the flag.
C29_BlockCommentFlagChanges ==
    [][IF clPc = "loop" /\ lineNo' = lineNo + 1
       THEN \A line \in {StrLines(content)[lineNo + 1]} :
               /\ (~in_block_comment /\ in_block_comment') <=>
                     /\ ~in_block_comment
                     /\ ~WhitespaceOnly(line)
                     /\ OpensWithBlockComment(line)
                     /\ ~HoldsBlockCommentEnd(line)
               /\ (in_block_comment /\ ~in_block_comment') <=>
                     /\ in_block_comment
                     /\ ~WhitespaceOnly(line)
                     /\ HoldsBlockCommentEnd(line)
               /\ WhitespaceOnly(line) =>
                     /\ blanks' = blanks + 1
                     /\ in_block_comment' = in_block_comment
               /\ ~WhitespaceOnly(line) => blanks' = blanks
       ELSE in_block_comment' = in_block_comment]_vars

\* inside a block comment a whitespace-only line was counted as blank and
\* the flag is still set; a line of code that opens a block comment after the
\* code stands in another text
C29_Witness ==
    /\ clPc = "loop"
    /\ lineNo = 2
    /\ in_block_comment
    /\ comments = 1
    /\ blanks = 1
    /\ StrLines(content)[1] = SlashStar
    /\ StrLines(content)[2] = <<" ">>

\* the number of positions of the word list wa whose word occurs in wb
MatchingPositions(wa, wb) ==
    Cardinality({i \in 1..Len(wa) : \E j \in 1..Len(wb) : wb[j] = wa[i]})

\* sim is the fraction m / max(|wa|, |wb|)
IsMatchingOverLonger(sim, wa, wb) ==
    sim[1] * Max(Len(wa), Len(wb)) = MatchingPositions(wa, wb) * sim[2]

C30_SimilaritySymmetric ==
    sPc = "done" =>
       \A swapped \in {string_similarity(sB, sA)} :
          /\ RatEq(sOut, swapped)
          /\ SimilarityInRange(sOut) <=> SimilarityInRange(swapped)

====
